---- MODULE Spec2Model ----
(***************************************************************************)
(* The narrative session engine of rekallhalo (the useGameEngine hook and  *)
(* the generation service) as a state machine.                             *)
(*                                                                         *)
(* React state is the model's state.  A synchronous handler is one action. *)
(* An async handler is one action per step between two awaits: the values  *)
(* its closure captured at invocation (context, history, lastIdx ...)      *)
(* travel in a record of the list `pending`; a functional update           *)
(* setContext(prev => ...) reads the live context, a plain                 *)
(* setContext(value) built from the closure overwrites it.                 *)
(*                                                                         *)
(* Representation: a text is a sequence of characters, a missing           *)
(* (undefined / null / '') string is "" or <<>>, a missing identifier is   *)
(* 0.  Identifiers (generateUUID) are drawn from the counter `uuid`, which *)
(* also serves as the clock reading Date.now().  Fields nothing in the     *)
(* engine logic reads (lastUpdated, backgroundImage, genre, audio, UI      *)
(* settings) are left out.                                                 *)
(***************************************************************************)
EXTENDS Integers, Sequences, FiniteSets, TLC

VARIABLES gameState, isLoading, error, modal, context, savedGames,
          deletedSavesStack, storage, abortCtl, pending, uuid, probe, service

vars == <<gameState, isLoading, error, modal, context, savedGames,
          deletedSavesStack, storage, abortCtl, pending, uuid, probe, service>>

(***************************************************************************)
(* Bounds of the model.                                                    *)
(***************************************************************************)
\* identifiers that may be drawn in one behaviour
MaxIds == 9
\* async handler invocations in flight at the same time
MaxPending == 2
\* entries kept on the undo stack / records in the save list
MaxSaves == 3

MaxVersions == 3
\* tokens of a text handed to cleanJson
MaxTextLen == 4

(***************************************************************************)
(* Generic helpers.                                                        *)
(***************************************************************************)
Range(s) == {s[i] : i \in DOMAIN s}

Min(a, b) == IF a < b THEN a ELSE b

Max(a, b) == IF a > b THEN a ELSE b

\* s without its i-th element (1-based)
RemoveAt(s, i) == [j \in 1..(Len(s) - 1) |-> IF j < i THEN s[j] ELSE s[j + 1]]

\* String.prototype.includes on character sequences
Includes(str, sub) ==
    \E k \in 0..(Len(str) - Len(sub)) :
        \A j \in 1..Len(sub) : str[k + j] = sub[j]

\* String.prototype.substring(0, n)
Substring0(str, n) == SubSeq(str, 1, Min(n, Len(str)))

(***************************************************************************)
(* Data: segments, versions, chapters, contexts, saved games.              *)
(***************************************************************************)
LANDING == "LANDING"
SETUP == "SETUP"
LOADING == "LOADING"
PLAYING == "PLAYING"

NoError == ""

\* the six buffers of a MemoryState are one text; <<>> stands for undefined
DEFAULT_MEMORY == <<"d">>

\* context.currentSegment = null
\* versionsRef names the array object that `versions` is (0 while the segment
\* has none): copies of a segment made by spread share that array
NoSeg ==
    [id |-> 0, text |-> <<>>, choices |-> <<>>, visualPrompt |-> "",
     mood |-> "", location |-> "", causedBy |-> "", triggeredEventId |-> 0,
     activeCharacterName |-> <<>>, chapterId |-> 0,
     versions |-> <<>>, versionsRef |-> 0, currentVersionIndex |-> 0]

DEFAULT_CONTEXT ==
    [sessionId |-> 0,
     character |-> [name |-> "", trait |-> "", avatar |-> "", skills |-> <<>>],
     supportingCharacters |-> <<>>,
     history |-> <<>>,
     currentSegment |-> NoSeg,
     memories |-> DEFAULT_MEMORY,
     scheduledEvents |-> <<>>,
     plotBlueprint |-> <<>>,
     storyName |-> ""]

\* the summary of a checkpoint is the first 50 characters of the text
SummaryLength == 50

AUTO == "auto"
MANUAL == "manual"
SETUPSAVE == "setup"

(***************************************************************************)
(* geminiService: the fallback chain.                                      *)
(***************************************************************************)
aiModel == "gemini-2.5-pro"

TextModels == {"gemini-2.5-pro", "gemini-3-pro-preview", "gemini-2.5-flash",
               "gemini-flash-lite-latest"}

TEXT_MODEL_FALLBACKS(m) ==
    CASE m = "gemini-2.5-pro" -> <<"gemini-2.5-flash">>
      [] m = "gemini-3-pro-preview" -> <<"gemini-2.5-flash">>
      [] m = "gemini-2.5-flash" -> <<"gemini-flash-lite-latest">>
      [] OTHER -> <<>>

\* a candidate list that puts the fallbacks before the preferred model
ModelsToTryFallbacksFirst(primaryModel) == TEXT_MODEL_FALLBACKS(primaryModel) \o <<primaryModel>>

ModelsToTry(primaryModel) == <<primaryModel>> \o TEXT_MODEL_FALLBACKS(primaryModel)

\* The outcome of operation(model) is given by `failing`, the set of models
\* whose call fails: the index (1-based) of the first candidate that
\* succeeds, 0 when every candidate fails.
RECURSIVE FirstSuccessFrom(_, _, _)
FirstSuccessFrom(models, failing, i) ==
    IF i > Len(models) THEN 0
    ELSE IF models[i] \notin failing THEN i
         ELSE FirstSuccessFrom(models, failing, i + 1)

WithModelFallbackSucceeds(primaryModel, failing) ==
    FirstSuccessFrom(ModelsToTry(primaryModel), failing, 1) # 0

(***************************************************************************)
(* What a generation backend can answer.  A response carries the fields    *)
(* of storyResponseSchema that the engine reads.                           *)
(***************************************************************************)
Response(text, choices, tag, location, activeCharacterName, triggeredEventId) ==
    [text |-> text, choices |-> choices, visualPrompt |-> tag, mood |-> tag,
     location |-> location, activeCharacterName |-> activeCharacterName,
     triggeredEventId |-> triggeredEventId, newMemories |-> text,
     affinityChanges |-> <<>>]

\* the key character every planned chapter names, and two names an answer
\* may carry: one that contains the key name, one that does not
KeyName == <<"k">>

LongKeyName == <<"x", "k">>

OtherName == <<"z">>

\* an event identifier no scheduled event carries
ForeignEvent == MaxIds + 1

(***************************************************************************)
(* ChapterTracker: the bookkeeping of handleStartGame and handleChoice.    *)
(***************************************************************************)
ZeroStats == [currentWordCount |-> 0, eventsTriggered |-> 0, interactionsCount |-> 0]

DefaultCriteria == [minKeyEvents |-> 1, minInteractions |-> 1]

\* autoPlanBlueprint: one processed chapter
NewChapter(id, target, lo, hi) ==
    [id |-> id, status |-> "pending", trackedStats |-> ZeroStats,
     completionCriteria |-> DefaultCriteria, keyCharacters |-> <<KeyName>>,
     targetWordCount |-> Max(lo, Min(target, hi)), finishedTurnCount |-> 0]

\* updatedBlueprint.findIndex(c => c.status === 'active')
ActiveChapterIndex(bp) ==
    IF \E i \in 1..Len(bp) : bp[i].status = "active"
    THEN (CHOOSE i \in 1..Len(bp) :
              /\ bp[i].status = "active"
              /\ \A j \in 1..(i - 1) : bp[j].status # "active") - 1
    ELSE -1

\* the three counters after a segment is added to a chapter
TrackStats(chapter, seg) ==
    LET stats == chapter.trackedStats
        name == seg.activeCharacterName
    IN [currentWordCount |-> stats.currentWordCount + Len(seg.text),
        eventsTriggered |->
            stats.eventsTriggered + (IF seg.triggeredEventId # 0 THEN 1 ELSE 0),
        interactionsCount |->
            stats.interactionsCount +
            (IF /\ name # <<>>
                /\ \E k \in 1..Len(chapter.keyCharacters) :
                       Includes(name, chapter.keyCharacters[k])
             THEN 1 ELSE 0)]

\* a completion test that looks at the word goal only
IsChapterCompleteByWords(chapter, stats) ==
    stats.currentWordCount >= chapter.targetWordCount

\* isWordGoalReached && isEventGoalReached && isInteractGoalReached
IsChapterComplete(chapter, stats) ==
    /\ stats.currentWordCount >= chapter.targetWordCount
    /\ stats.eventsTriggered >= chapter.completionCriteria.minKeyEvents
    /\ stats.interactionsCount >= chapter.completionCriteria.minInteractions

\* handleStartGame: initialBlueprint
InitialBlueprintStatus(c, i) == IF i = 0 THEN "active" ELSE c.status

InitialBlueprint(bp) ==
    [i \in 1..Len(bp) |-> [bp[i] EXCEPT !.status = InitialBlueprintStatus(bp[i], i - 1)]]

\* handleStartGame: startingBlueprint (stats only, no completion check)
StartingBlueprint(bp, seg) ==
    [i \in 1..Len(bp) |->
        IF bp[i].status = "active"
        THEN [bp[i] EXCEPT !.trackedStats = TrackStats(bp[i], seg)]
        ELSE bp[i]]

\* handleChoice: updatedBlueprint
UpdatedBlueprint(bp, seg) ==
    LET idx == ActiveChapterIndex(bp) IN
    IF idx = -1 THEN bp
    ELSE LET chapter == bp[idx + 1]
             stats == TrackStats(chapter, seg)
             done == IsChapterComplete(chapter, stats)
             tracked == [chapter EXCEPT !.trackedStats = stats]
             finished == [tracked EXCEPT !.status = "completed",
                                         !.finishedTurnCount = @ + 1]
         IN [i \in 1..Len(bp) |->
                IF i = idx + 1 THEN (IF done THEN finished ELSE tracked)
                ELSE IF done /\ i = idx + 2 THEN [bp[i] EXCEPT !.status = "active"]
                ELSE bp[i]]

\* scheduledEvents.map(e => e.id === triggeredEventId ? {...e, status: 'completed'} : e)
CompleteEvent(events, triggeredEventId) ==
    IF triggeredEventId = 0 THEN events
    ELSE [i \in 1..Len(events) |->
            IF events[i].id = triggeredEventId
            THEN [events[i] EXCEPT !.status = "completed"]
            ELSE events[i]]

(***************************************************************************)
(* Records of the engine.                                                  *)
(***************************************************************************)
\* the StorySegment built by generateOpening / advanceStory from an answer
\* a segment built without its generated id
SegmentOfUnidentified(id, r, causedBy, chapterId) ==
    [id |-> 0, text |-> r.text, choices |-> r.choices,
     visualPrompt |-> r.visualPrompt, mood |-> r.mood, location |-> r.location,
     causedBy |-> causedBy, triggeredEventId |-> r.triggeredEventId,
     activeCharacterName |-> r.activeCharacterName, chapterId |-> chapterId,
     versions |-> <<>>, versionsRef |-> 0, currentVersionIndex |-> 0]

SegmentOf(id, r, causedBy, chapterId) ==
    [id |-> id, text |-> r.text, choices |-> r.choices,
     visualPrompt |-> r.visualPrompt, mood |-> r.mood, location |-> r.location,
     causedBy |-> causedBy, triggeredEventId |-> r.triggeredEventId,
     activeCharacterName |-> r.activeCharacterName, chapterId |-> chapterId,
     versions |-> <<>>, versionsRef |-> 0, currentVersionIndex |-> 0]

\* a SavedGame
SaveRecord(id, sessionId, storyId, parentId, now, text, ctx, type, choiceText) ==
    [id |-> id, sessionId |-> sessionId, storyId |-> storyId,
     parentId |-> parentId, timestamp |-> now,
     summary |-> Substring0(text, SummaryLength), context |-> ctx,
     type |-> type, choiceText |-> choiceText, turnCount |-> Len(ctx.history)]

\* StorageService (an external key-value store of saved games, keyed by id):
\* a write that fails leaves the store as it was
StoragePut(store, recs, ok) ==
    IF ok THEN {s \in store : \A r \in recs : r.id # s.id} \cup recs ELSE store

StorageDelete(store, ids, ok) ==
    IF ok THEN {s \in store : s.id \notin ids} ELSE store

\* an async handler invocation in flight: what its closure captured
Invocation(kind, ctx) ==
    [kind |-> kind, ctx |-> ctx, stage |-> "", hist |-> <<>>, choice |-> "",
     mode |-> "", lastIdx |-> 0, config |-> FALSE, sessionId |-> 0,
     blueprint |-> <<>>, opening |-> NoSeg, newMemories |-> <<>>, avatar |-> "",
     chars |-> <<>>, cancelled |-> FALSE]

\* `probe` observes the run for the properties and is read by no handler: it
\* remembers the step just taken when a property is about what follows it
NoProbe == [kind |-> "none"]

\* the step just taken was the failure of the generation of a handler
FailureProbe(handler) == [kind |-> "failed", handler |-> handler]

\* the step just taken was deleteSaveGame(id) on the list `before`; the undo
\* that follows at once turns the kind into "undone"
DeletedProbe(id, before) == [kind |-> "deleted", id |-> id, before |-> before]

\* the runs of deletes and undos that are followed are those made on the
\* landing screen: `tracked` tells that the last steps were deletes in a row
\* of which `depth` are not undone yet, and `origin` is the set of records of
\* the list before the first of them.  A delete by id is of kind "deleted", a
\* delete of a session of kind "dropped"
Untracked == [tracked |-> FALSE, depth |-> 0, origin |-> {}]

DeleteRunProbe(last, deleted, before, onLanding) ==
    IF last.kind \in {"deleted", "dropped"} /\ last.tracked
    THEN deleted @@ [tracked |-> TRUE, depth |-> last.depth + 1, origin |-> last.origin]
    ELSE IF onLanding
    THEN deleted @@ [tracked |-> TRUE, depth |-> 1, origin |-> Range(before)]
    ELSE IF deleted.kind = "deleted" THEN deleted @@ Untracked
    ELSE NoProbe

\* the undos that follow the deletes of a run: "undone" right after a delete
\* by id, "restored" right after a delete of a session, "unwound" after
\* another undo of the run
UndoRunProbe(last) ==
    IF last.kind = "deleted"
    THEN [last EXCEPT !.kind = "undone", !.depth = IF last.tracked THEN @ - 1 ELSE 0]
    ELSE IF last.kind = "dropped"
    THEN [kind |-> "restored", tracked |-> TRUE, depth |-> last.depth - 1,
          origin |-> last.origin]
    ELSE IF last.kind \in {"undone", "restored", "unwound"} /\ last.tracked /\ last.depth >= 1
    THEN [kind |-> "unwound", tracked |-> TRUE, depth |-> last.depth - 1,
          origin |-> last.origin]
    ELSE NoProbe

\* an undo on the landing screen that found the stack empty
UndoEmptyProbe(onLanding) == IF onLanding THEN [kind |-> "undoEmpty"] ELSE NoProbe

\* the last steps were `count` calls of handleSwitchVersion(segmentId, 'next')
\* in a row, the first of them on the segment `start`
NextProbe(last, history, segmentId, direction) ==
    LET matches == {k \in 1..Len(history) : history[k].id = segmentId}
    IN IF direction # "next" \/ matches = {} THEN NoProbe
       ELSE IF /\ last.kind = "next"
               /\ last.segmentId = segmentId
               /\ last.count < Len(last.start.versions)
            THEN [last EXCEPT !.count = @ + 1]
            ELSE [kind |-> "next", segmentId |-> segmentId, count |-> 1,
                  start |-> history[CHOOSE m \in matches : \A o \in matches : m <= o]]

\* the step just taken was a regeneration in mode 'full' or 'text' of the
\* segment `before`, as it was before the step
RegeneratedProbe(mode, before) ==
    IF mode = "choices" THEN NoProbe
    ELSE [kind |-> "regenerated", segmentId |-> before.id, before |-> before]

\* handleSwitchVersion(segmentId, 'prev') right after the regeneration of
\* that segment turns the kind into "regeneratedPrev"
SwitchProbe(last, history, segmentId, direction) ==
    IF direction = "prev" /\ last.kind = "regenerated" /\ last.segmentId = segmentId
    THEN [last EXCEPT !.kind = "regeneratedPrev"]
    ELSE NextProbe(last, history, segmentId, direction)

\* `service` holds the call of geminiService that is followed step by step;
\* the engine's handlers leave it alone
NoCall == [op |-> "none"]

CanInvoke == Len(pending) < MaxPending

EngineInit ==
    /\ gameState = LANDING
    /\ isLoading = FALSE
    /\ error = NoError
    /\ modal = ""
    /\ context = DEFAULT_CONTEXT
    /\ savedGames = <<>>
    /\ deletedSavesStack = <<>>
    /\ storage = {}
    /\ abortCtl = "null"
    /\ pending = <<>>
    /\ uuid = 0
    /\ probe = NoProbe

Init ==
    /\ EngineInit
    /\ service = NoCall

(***************************************************************************)
(* The setup form: setContext with the protagonist's name and trait.       *)
(***************************************************************************)
SetupCharacter(name, trait) ==
    /\ gameState = SETUP
    /\ context' = [context EXCEPT !.character.name = name, !.character.trait = trait]
    /\ context' # context
    /\ service' = service
    /\ probe' = NoProbe
    /\ UNCHANGED <<modal, gameState, isLoading, error, savedGames, deletedSavesStack,
                   storage, abortCtl, pending, uuid>>

HandleStartNewGameSetup ==
    /\ context' = DEFAULT_CONTEXT
    /\ gameState' = SETUP
    /\ service' = service
    /\ probe' = NoProbe
    /\ UNCHANGED <<modal, isLoading, error, savedGames, deletedSavesStack, storage,
                   abortCtl, pending, uuid>>

HandleBackToHome ==
    /\ gameState' = LANDING
    /\ service' = service
    /\ probe' = NoProbe
    /\ UNCHANGED <<modal, isLoading, error, context, savedGames, deletedSavesStack,
                   storage, abortCtl, pending, uuid>>

(***************************************************************************)
(* handleAbortGame: aborts the controller the ref holds now.               *)
(***************************************************************************)
AbortedController(ctl) == IF ctl = "null" THEN "null" ELSE "aborted"

HandleAbortGame ==
    /\ abortCtl' = AbortedController(abortCtl)
    /\ gameState' = LANDING
    /\ pending' = [i \in 1..Len(pending) |-> [pending[i] EXCEPT !.cancelled = TRUE]]
    /\ service' = service
    /\ probe' = NoProbe
    /\ UNCHANGED <<modal, isLoading, error, context, savedGames, deletedSavesStack,
                   storage, uuid>>

(***************************************************************************)
(* handleLoadGame                                                          *)
(***************************************************************************)
HandleLoadGame(save, forceSetup) ==
    /\ context' = save.context
    /\ gameState' = IF forceSetup \/ save.type = SETUPSAVE THEN SETUP ELSE PLAYING
    /\ service' = service
    /\ probe' = NoProbe
    /\ UNCHANGED <<modal, isLoading, error, savedGames, deletedSavesStack, storage,
                   abortCtl, pending, uuid>>

(***************************************************************************)
(* handleAutoPlanBlueprint                                                 *)
(***************************************************************************)
HandleAutoPlanBlueprintRejected ==
    /\ context.character.name = ""
    /\ error' = "no protagonist name"
    /\ service' = service
    /\ probe' = NoProbe
    /\ UNCHANGED <<modal, gameState, isLoading, context, savedGames, deletedSavesStack,
                   storage, abortCtl, pending, uuid>>

HandleAutoPlanBlueprint(config) ==
    /\ context.character.name # ""
    /\ CanInvoke
    /\ isLoading' = TRUE
    /\ error' = NoError
    /\ pending' = Append(pending, [Invocation("plan", context) EXCEPT !.config = config])
    /\ service' = service
    /\ probe' = NoProbe
    /\ UNCHANGED <<modal, gameState, context, savedGames, deletedSavesStack, storage,
                   abortCtl, uuid>>

\* setContext(prev => ...): append when a config was passed and the live
\* blueprint is non-empty, replace otherwise
PlannedBlueprint(config, prevBlueprint, chapters) ==
    IF config /\ Len(prevBlueprint) > 0 THEN prevBlueprint \o chapters ELSE chapters

\* mappedNewChars: a fresh id and a random affinity seed for every new
\* character; those whose name is already present are dropped
MappedNewChars(prevChars, newCharacters, firstId) ==
    LET mapped == [k \in 1..Len(newCharacters) |->
                      [id |-> firstId + k, name |-> newCharacters[k].name,
                       affinity |-> newCharacters[k].affinity, avatar |-> ""]]
    IN SelectSeq(mapped, LAMBDA nc : \A j \in 1..Len(prevChars) : prevChars[j].name # nc.name)

\* autoPlanBlueprint answered with `targets`, the target word count of each
\* chapter, clamped into wordCountRange = [lo, hi], and with newCharacters
AutoPlanReturns(i, targets, lo, hi, newCharacters) ==
    /\ i \in 1..Len(pending)
    /\ pending[i].kind = "plan"
    /\ uuid + Len(targets) + Len(newCharacters) <= MaxIds
    /\ LET chapters == [k \in 1..Len(targets) |-> NewChapter(uuid + k, targets[k], lo, hi)]
       IN context' = [context EXCEPT
             !.plotBlueprint =
                 PlannedBlueprint(pending[i].config, context.plotBlueprint, chapters),
             !.supportingCharacters =
                 @ \o MappedNewChars(@, newCharacters, uuid + Len(targets))]
    /\ uuid' = uuid + Len(targets) + Len(newCharacters)
    /\ isLoading' = FALSE
    /\ pending' = RemoveAt(pending, i)
    /\ service' = service
    /\ probe' = NoProbe
    /\ UNCHANGED <<modal, gameState, error, savedGames, deletedSavesStack, storage, abortCtl>>

AutoPlanFails(i) ==
    /\ i \in 1..Len(pending)
    /\ pending[i].kind = "plan"
    /\ error' = "plan failed"
    /\ isLoading' = FALSE
    /\ pending' = RemoveAt(pending, i)
    /\ service' = service
    /\ probe' = NoProbe
    /\ UNCHANGED <<modal, gameState, context, savedGames, deletedSavesStack, storage,
                   abortCtl, uuid>>

(***************************************************************************)
(* handleStartGame: invocation, then the three awaits (the opening text,   *)
(* the images, the 300 ms pause), each followed by the same test of the    *)
(* controller the ref holds at that moment.                                *)
(***************************************************************************)
\* a validation that asks for a name only
StartIsInvalidWithoutName(character) == character.name = ""

\* !context.character.name || !context.character.trait
StartIsInvalid(character) == character.name = "" \/ character.trait = ""

\* setError of the validation
StartValidationMessage == "name and trait required"

HandleStartGameRejected ==
    /\ StartIsInvalid(context.character)
    /\ error' = StartValidationMessage
    /\ service' = service
    /\ probe' = NoProbe
    /\ UNCHANGED <<modal, gameState, isLoading, context, savedGames, deletedSavesStack,
                   storage, abortCtl, pending, uuid>>

HandleStartGame ==
    /\ ~StartIsInvalid(context.character)
    /\ CanInvoke
    /\ context.sessionId = 0 => uuid + 1 <= MaxIds
    /\ error' = NoError
    /\ abortCtl' = "fresh"
    /\ uuid' = IF context.sessionId = 0 THEN uuid + 1 ELSE uuid
    /\ gameState' = LOADING
    /\ pending' = Append(pending,
           [Invocation("start", context) EXCEPT
               !.stage = "opening",
               !.sessionId = IF context.sessionId = 0 THEN uuid + 1 ELSE context.sessionId,
               !.blueprint = InitialBlueprint(context.plotBlueprint)])
    /\ service' = service
    /\ probe' = NoProbe
    /\ UNCHANGED <<modal, isLoading, context, savedGames, deletedSavesStack, storage>>

\* if (abortControllerRef.current?.signal.aborted) throw new Error("Aborted")
IsAborted(ctl) == ctl = "aborted"

\* catch: err.message === "Aborted" returns silently
StartGameAbortedReturn(i) ==
    /\ pending' = RemoveAt(pending, i)
    /\ service' = service
    /\ probe' = NoProbe
    /\ UNCHANGED <<modal, gameState, isLoading, error, context, savedGames,
                   deletedSavesStack, storage, abortCtl, uuid>>

\* catch, any other error
StartGameErrorState == SETUP

StartGameErrorMessage == "opening failed"

StartGameFails(i) ==
    /\ gameState' = StartGameErrorState
    /\ error' = StartGameErrorMessage
    /\ pending' = RemoveAt(pending, i)
    /\ service' = service
    /\ probe' = FailureProbe("start")
    /\ UNCHANGED <<modal, isLoading, context, savedGames, deletedSavesStack, storage,
                   abortCtl, uuid>>

\* generateOpening failed for every model of the fallback chain
StartGameOpeningFails(i, failing) ==
    /\ i \in 1..Len(pending)
    /\ pending[i].kind = "start" /\ pending[i].stage = "opening"
    /\ ~WithModelFallbackSucceeds(aiModel, failing)
    /\ StartGameFails(i)

\* generateOpening answered r (an opening carries no triggeredEventId)
StartGameOpeningReturns(i, failing, r) ==
    /\ i \in 1..Len(pending)
    /\ pending[i].kind = "start" /\ pending[i].stage = "opening"
    /\ WithModelFallbackSucceeds(aiModel, failing)
    /\ r.triggeredEventId = 0
    /\ uuid + 1 <= MaxIds
    /\ IF IsAborted(abortCtl)
       THEN /\ StartGameAbortedReturn(i)
       ELSE /\ pending' = [pending EXCEPT ![i] =
                   [@ EXCEPT !.stage = "images",
                             !.opening = SegmentOf(uuid + 1, r, "",
                                 IF Len(pending[i].blueprint) > 0
                                 THEN pending[i].blueprint[1].id ELSE 0),
                             !.newMemories = r.newMemories]]
            /\ uuid' = uuid + 1
            /\ service' = service
            /\ probe' = NoProbe
            /\ UNCHANGED <<modal, gameState, isLoading, error, context, savedGames,
                           deletedSavesStack, storage, abortCtl>>

\* supportingCharPromises: a character that has an avatar keeps it, one whose
\* avatar call fails is returned as it was
UpdatedSupportingChars(chars, failed) ==
    [k \in 1..Len(chars) |->
        IF chars[k].avatar # "" \/ k \in failed THEN chars[k]
        ELSE [chars[k] EXCEPT !.avatar = "img"]]

\* Promise.all([avatarPromise, sceneImagePromise, Promise.all(supportingCharPromises)])
StartGameImagesReturn(i, avatarOk, sceneOk, failed) ==
    /\ i \in 1..Len(pending)
    /\ pending[i].kind = "start" /\ pending[i].stage = "images"
    /\ failed \subseteq 1..Len(pending[i].ctx.supportingCharacters)
    /\ IF ~avatarOk \/ ~sceneOk
       THEN StartGameFails(i)
       ELSE IF IsAborted(abortCtl)
       THEN StartGameAbortedReturn(i)
       ELSE /\ pending' = [pending EXCEPT ![i] =
                   [@ EXCEPT !.stage = "pause", !.avatar = "img",
                             !.chars = UpdatedSupportingChars(
                                          pending[i].ctx.supportingCharacters, failed)]]
            /\ service' = service
            /\ probe' = NoProbe
            /\ UNCHANGED <<modal, gameState, isLoading, error, context, savedGames,
                           deletedSavesStack, storage, abortCtl, uuid>>

\* newContext of handleStartGame, built from the captured context
StartGameContext(op) ==
    [op.ctx EXCEPT
        !.sessionId = op.sessionId,
        !.storyName = IF @ # "" THEN @ ELSE "untitled",
        !.character.avatar = op.avatar,
        !.supportingCharacters = op.chars,
        !.history = <<op.opening>>,
        !.currentSegment = op.opening,
        !.memories = IF op.newMemories # <<>> THEN op.newMemories ELSE DEFAULT_MEMORY,
        !.plotBlueprint = StartingBlueprint(op.blueprint, op.opening),
        !.scheduledEvents = CompleteEvent(@, op.opening.triggeredEventId)]

\* an opening that keeps no record of itself in the list
StartGameSavesDropped(prev, saveObj) == prev

\* setSavedGames(prev => [saveObj, ...prev])
StartGameSaves(prev, saveObj) == <<saveObj>> \o prev

\* the pause is over: commit the opening and its auto checkpoint
StartGameCommit(i, storageOk) ==
    /\ i \in 1..Len(pending)
    /\ pending[i].kind = "start" /\ pending[i].stage = "pause"
    /\ uuid + 1 <= MaxIds
    /\ IF IsAborted(abortCtl)
       THEN StartGameAbortedReturn(i)
       ELSE LET op == pending[i]
                newContext == StartGameContext(op)
                saveObj == SaveRecord(uuid + 1, op.sessionId, op.opening.id, 0,
                                      uuid + 1, op.opening.text, newContext, AUTO,
                                      "start")
            IN /\ context' = newContext
               /\ gameState' = PLAYING
               /\ savedGames' = StartGameSaves(savedGames, saveObj)
               /\ storage' = StoragePut(storage, {saveObj}, storageOk)
               /\ uuid' = uuid + 1
               /\ pending' = RemoveAt(pending, i)
               /\ service' = service
               /\ probe' = NoProbe
               /\ UNCHANGED <<modal, isLoading, error, deletedSavesStack, abortCtl>>

(***************************************************************************)
(* handleChoice                                                            *)
(***************************************************************************)
\* if (isLoading) return
ChoiceIsBusy(loading) == loading

HandleChoiceBusy ==
    /\ ChoiceIsBusy(isLoading)
    /\ service' = service
    /\ probe' = NoProbe
    /\ UNCHANGED <<modal, gameState, isLoading, error, context, savedGames,
                   deletedSavesStack, storage, abortCtl, pending, uuid>>

\* the history the turn continues: cut after fromIndex (0-based), -1 = no fromIndex
ChoiceHistory(history, fromIndex) ==
    IF fromIndex # -1 /\ fromIndex < Len(history) - 1
    THEN SubSeq(history, 1, fromIndex + 1)
    ELSE history

HandleChoice(choice, fromIndex) ==
    /\ ~ChoiceIsBusy(isLoading)
    /\ CanInvoke
    /\ isLoading' = TRUE
    /\ pending' = Append(pending,
           [Invocation("choice", context) EXCEPT
               !.choice = choice,
               !.hist = ChoiceHistory(context.history, fromIndex)])
    /\ service' = service
    /\ probe' = NoProbe
    /\ UNCHANGED <<modal, gameState, error, context, savedGames, deletedSavesStack,
                   storage, abortCtl, uuid>>

\* a catch that swallows the failure
ChoiceErrorSilent == NoError

\* catch: setError
ChoiceErrorMessage == "advance failed"

\* advanceStory failed for every model of the fallback chain
ChoiceFails(i, failing) ==
    /\ i \in 1..Len(pending)
    /\ pending[i].kind = "choice"
    /\ ~WithModelFallbackSucceeds(aiModel, failing)
    /\ error' = ChoiceErrorMessage
    /\ isLoading' = FALSE
    /\ pending' = RemoveAt(pending, i)
    /\ service' = service
    /\ probe' = FailureProbe("choice")
    /\ UNCHANGED <<modal, gameState, context, savedGames, deletedSavesStack,
                   storage, abortCtl, uuid>>

\* affinityChanges: the last delta reported for a name, 0 when none
RECURSIVE AffinityDelta(_, _)
AffinityDelta(changes, name) ==
    IF changes = <<>> THEN 0
    ELSE IF changes[Len(changes)].characterName = name
         THEN changes[Len(changes)].change
         ELSE AffinityDelta(SubSeq(changes, 1, Len(changes) - 1), name)

UpdatedAffinity(chars, changes) ==
    [k \in 1..Len(chars) |->
        [chars[k] EXCEPT !.affinity = @ + AffinityDelta(changes, chars[k].name)]]

\* newContext of handleChoice, built from the captured context; seg is the
\* new segment, r the answer it was built from
ChoiceContext(op, seg, r, sessionId) ==
    [op.ctx EXCEPT
        !.history = Append(op.hist, seg),
        !.currentSegment = seg,
        !.supportingCharacters = UpdatedAffinity(@, r.affinityChanges),
        !.memories = IF r.newMemories # <<>> THEN r.newMemories ELSE @,
        !.scheduledEvents = CompleteEvent(@, r.triggeredEventId),
        !.plotBlueprint = UpdatedBlueprint(@, seg),
        !.sessionId = sessionId]

\* a turn that keeps no record of itself in the list
ChoiceSavesDropped(prevSaves, saveObj) == prevSaves

\* setSavedGames(prevSaves => alreadySaved ? prevSaves : [saveObj, ...prevSaves])
ChoiceSaves(prevSaves, saveObj) ==
    IF \E k \in 1..Len(prevSaves) :
           /\ prevSaves[k].storyId = saveObj.storyId
           /\ prevSaves[k].sessionId = saveObj.sessionId
    THEN prevSaves
    ELSE <<saveObj>> \o prevSaves

\* advanceStory answered r: the turn is committed with its auto checkpoint
ChoiceReturns(i, failing, r, storageOk) ==
    /\ i \in 1..Len(pending)
    /\ pending[i].kind = "choice"
    /\ WithModelFallbackSucceeds(aiModel, failing)
    /\ LET op == pending[i]
           drawn == IF op.ctx.sessionId = 0 THEN 3 ELSE 2
           idx == ActiveChapterIndex(op.ctx.plotBlueprint)
           seg == SegmentOf(uuid + 1, r, op.choice,
                            IF idx = -1 THEN 0 ELSE op.ctx.plotBlueprint[idx + 1].id)
           sessionId == IF op.ctx.sessionId # 0 THEN op.ctx.sessionId ELSE uuid + 2
           newContext == ChoiceContext(op, seg, r, sessionId)
           saveObj == SaveRecord(uuid + drawn, sessionId, seg.id,
                                 IF Len(op.hist) > 0 THEN op.hist[Len(op.hist)].id ELSE 0,
                                 uuid + drawn, seg.text, newContext, AUTO, op.choice)
       IN /\ uuid + drawn <= MaxIds
          /\ context' = newContext
          /\ savedGames' = ChoiceSaves(savedGames, saveObj)
          /\ storage' = StoragePut(storage, {saveObj}, storageOk)
          /\ uuid' = uuid + drawn
    /\ isLoading' = FALSE
    /\ pending' = RemoveAt(pending, i)
    /\ service' = service
    /\ probe' = NoProbe
    /\ UNCHANGED <<modal, gameState, error, deletedSavesStack, abortCtl>>

(***************************************************************************)
(* handleManualSave                                                        *)
(***************************************************************************)
\* a test that finds no saved game for any pair
AlreadySavedNever(saves, ctx) == FALSE

\* savedGames.some(s => s.sessionId === context.sessionId && s.storyId === context.currentSegment?.id)
AlreadySaved(saves, ctx) ==
    \E k \in 1..Len(saves) :
        /\ saves[k].sessionId = ctx.sessionId
        /\ saves[k].storyId = ctx.currentSegment.id

HandleManualSaveExisting ==
    /\ context.currentSegment # NoSeg
    /\ AlreadySaved(savedGames, context)
    /\ modal' = "saveExistingNotification"
    /\ service' = service
    /\ probe' = NoProbe
    /\ UNCHANGED <<gameState, isLoading, error, context, savedGames,
                   deletedSavesStack, storage, abortCtl, pending, uuid>>

HandleManualSave(storageOk) ==
    /\ context.currentSegment # NoSeg
    /\ ~AlreadySaved(savedGames, context)
    /\ uuid + 1 <= MaxIds
    /\ LET n == Len(context.history)
           save == SaveRecord(uuid + 1, context.sessionId, context.currentSegment.id,
                              IF n > 1 THEN context.history[n - 1].id ELSE 0,
                              uuid + 1, context.currentSegment.text, context, MANUAL,
                              context.currentSegment.causedBy)
       IN /\ savedGames' = <<save>> \o savedGames
          /\ storage' = StoragePut(storage, {save}, storageOk)
    /\ error' = IF storageOk THEN error ELSE "save failed"
    /\ modal' = "saveNotification"
    /\ uuid' = uuid + 1
    /\ service' = service
    /\ probe' = NoProbe
    /\ UNCHANGED <<gameState, isLoading, context, deletedSavesStack, abortCtl, pending>>

(***************************************************************************)
(* Deleting saved games, undo, import.                                     *)
(***************************************************************************)
\* savedGames.filter(s => s.id !== id)
WithoutId(saves, id) == SelectSeq(saves, LAMBDA s : s.id # id)

\* savedGames.find(s => s.id === id), as a list of zero or one record
FoundById(saves, id) ==
    LET hits == SelectSeq(saves, LAMBDA s : s.id = id)
    IN IF hits = <<>> THEN <<>> ELSE <<hits[1]>>

DeleteSaveGame(id, storageOk) ==
    /\ FoundById(savedGames, id) # <<>>
    /\ Len(deletedSavesStack) < MaxSaves
    /\ deletedSavesStack' = Append(deletedSavesStack, FoundById(savedGames, id))
    /\ savedGames' = WithoutId(savedGames, id)
    /\ storage' = StorageDelete(storage, {id}, storageOk)
    /\ service' = service
    /\ probe' = DeleteRunProbe(probe, DeletedProbe(id, savedGames), savedGames,
                                gameState = LANDING)
    /\ UNCHANGED <<modal, gameState, isLoading, error, context, abortCtl, pending, uuid>>

SessionSaves(saves, sessionId) == SelectSeq(saves, LAMBDA s : s.sessionId = sessionId)

DeleteSession(sessionId, storageOk) ==
    /\ SessionSaves(savedGames, sessionId) # <<>>
    /\ Len(deletedSavesStack) < MaxSaves
    /\ deletedSavesStack' = Append(deletedSavesStack, SessionSaves(savedGames, sessionId))
    /\ savedGames' = SelectSeq(savedGames, LAMBDA s : s.sessionId # sessionId)
    /\ storage' = StorageDelete(storage,
                      {s.id : s \in Range(SessionSaves(savedGames, sessionId))}, storageOk)
    /\ service' = service
    /\ probe' = DeleteRunProbe(probe, [kind |-> "dropped"], savedGames,
                                gameState = LANDING)
    /\ UNCHANGED <<modal, gameState, isLoading, error, context, abortCtl, pending, uuid>>

\* an undo that forgets to put the group back
UndoneSavesForgotten(prev, lastDeletedGroup) == prev

\* setSavedGames(prev => [...prev, ...lastDeletedGroup])
UndoneSaves(prev, lastDeletedGroup) == prev \o lastDeletedGroup

\* an undo that drops the oldest entry of the stack
PoppedStackOldest(prev) == Tail(prev)

\* setDeletedSavesStack(prev => prev.slice(0, -1))
PoppedStack(prev) == SubSeq(prev, 1, Len(prev) - 1)

HandleUndoDelete(storageOk) ==
    /\ deletedSavesStack # <<>>
    /\ LET lastDeletedGroup == deletedSavesStack[Len(deletedSavesStack)]
       IN /\ savedGames' = UndoneSaves(savedGames, lastDeletedGroup)
          /\ storage' = StoragePut(storage, Range(lastDeletedGroup), storageOk)
    /\ deletedSavesStack' = PoppedStack(deletedSavesStack)
    /\ service' = service
    /\ probe' = UndoRunProbe(probe)
    /\ UNCHANGED <<modal, gameState, isLoading, error, context, abortCtl, pending, uuid>>

HandleUndoDeleteEmpty ==
    /\ deletedSavesStack = <<>>
    /\ service' = service
    /\ probe' = UndoEmptyProbe(gameState = LANDING)
    /\ UNCHANGED <<modal, gameState, isLoading, error, context, savedGames,
                   deletedSavesStack, storage, abortCtl, pending, uuid>>

\* toImport.forEach: a record is added unless its id is already present
RECURSIVE SavesToAdd(_, _)
SavesToAdd(present, toImport) ==
    IF toImport = <<>> THEN <<>>
    ELSE IF \E k \in 1..Len(present) : present[k].id = Head(toImport).id
         THEN SavesToAdd(present, Tail(toImport))
         ELSE <<Head(toImport)>> \o
              SavesToAdd(Append(present, Head(toImport)), Tail(toImport))

ImportSaveGame(toImport, storageOk) ==
    /\ Len(savedGames) + Len(toImport) <= MaxSaves
    /\ LET savesToAdd == SavesToAdd(savedGames, toImport)
       IN IF Len(savesToAdd) > 0
          THEN /\ savedGames' = savedGames \o savesToAdd
               /\ storage' = StoragePut(storage, Range(savesToAdd), storageOk)
          ELSE UNCHANGED <<savedGames, storage>>
    /\ service' = service
    /\ probe' = NoProbe
    /\ UNCHANGED <<modal, gameState, isLoading, error, context, deletedSavesStack,
                   abortCtl, pending, uuid>>

(***************************************************************************)
(* SegmentVersionStore: handleRegenerate, handleSwitchVersion and the      *)
(* edits of a segment.                                                     *)
(***************************************************************************)
\* history[idx] (0-based); a missing element spreads to an empty object
SegAt(history, idx) ==
    IF idx >= 0 /\ idx < Len(history) THEN history[idx + 1] ELSE NoSeg

\* history[idx] = seg on a copy (0-based); an assignment past the end leaves
\* holes, shown as empty segments
SetAt(history, idx, seg) ==
    [k \in 1..Max(Len(history), idx + 1) |->
        IF k = idx + 1 THEN seg
        ELSE IF k <= Len(history) THEN history[k] ELSE NoSeg]

\* the snapshot of the live fields taken as version 0: it has no location
VersionZero(seg) ==
    [text |-> seg.text, choices |-> seg.choices, visualPrompt |-> seg.visualPrompt,
     mood |-> seg.mood, location |-> ""]

NewVersion(r) ==
    [text |-> r.text, choices |-> r.choices, visualPrompt |-> r.visualPrompt,
     mood |-> r.mood, location |-> r.location]

\* the live fields of a segment mirror version v
Mirror(seg, v) ==
    [seg EXCEPT !.text = v.text, !.choices = v.choices,
                !.visualPrompt = v.visualPrompt, !.mood = v.mood,
                !.location = v.location]

HandleRegenerateNoHistory ==
    /\ Len(context.history) = 0
    /\ service' = service
    /\ probe' = NoProbe
    /\ UNCHANGED <<modal, gameState, isLoading, error, context, savedGames,
                   deletedSavesStack, storage, abortCtl, pending, uuid>>

\* mode !== 'choices' && lastIdx > 0 && !lastSegment.causedBy
NotRegenerable(history, mode) ==
    /\ mode # "choices"
    /\ Len(history) - 1 > 0
    /\ history[Len(history)].causedBy = ""

HandleRegenerateRejected(mode) ==
    /\ Len(context.history) > 0
    /\ NotRegenerable(context.history, mode)
    /\ error' = "cannot regenerate this node"
    /\ service' = service
    /\ probe' = NoProbe
    /\ UNCHANGED <<modal, gameState, isLoading, context, savedGames,
                   deletedSavesStack, storage, abortCtl, pending, uuid>>

\* what guards the invocation of handleRegenerate: nothing reads isLoading
RegenerateIsBusy(loading) == FALSE

HandleRegenerate(mode) ==
    /\ Len(context.history) > 0
    /\ ~NotRegenerable(context.history, mode)
    /\ ~RegenerateIsBusy(isLoading)
    /\ CanInvoke
    /\ isLoading' = TRUE
    /\ error' = NoError
    /\ pending' = Append(pending,
           [Invocation("regen", context) EXCEPT
               !.mode = mode,
               !.lastIdx = Len(context.history) - 1,
               !.hist = IF mode = "choices" THEN context.history
                        ELSE SubSeq(context.history, 1, Len(context.history) - 1)])
    /\ service' = service
    /\ probe' = NoProbe
    /\ UNCHANGED <<modal, gameState, context, savedGames, deletedSavesStack,
                   storage, abortCtl, uuid>>

RegenerateFails(i, failing) ==
    /\ i \in 1..Len(pending)
    /\ pending[i].kind = "regen"
    /\ ~WithModelFallbackSucceeds(aiModel, failing)
    /\ error' = "regenerate failed"
    /\ isLoading' = FALSE
    /\ pending' = RemoveAt(pending, i)
    /\ service' = service
    /\ probe' = NoProbe
    /\ UNCHANGED <<modal, gameState, context, savedGames, deletedSavesStack,
                   storage, abortCtl, uuid>>

\* a regeneration of the choices that takes the text of the answer as well
RegeneratedChoicesAndText(prev, lastIdx, r) ==
    LET seg == [SegAt(prev.history, lastIdx) EXCEPT !.choices = r.choices, !.text = r.text]
    IN [prev EXCEPT !.history = SetAt(@, lastIdx, seg), !.currentSegment = seg]

\* mode 'choices': setContext(prev => ...) replaces the choices at lastIdx
RegeneratedChoices(prev, lastIdx, r) ==
    LET seg == [SegAt(prev.history, lastIdx) EXCEPT !.choices = r.choices]
    IN [prev EXCEPT !.history = SetAt(@, lastIdx, seg), !.currentSegment = seg]

\* a regeneration that overwrites the active version of a segment that has
\* versions already
RegeneratedSegmentReplacing(currentSeg, r, ref) ==
    IF currentSeg.versions = <<>>
    THEN Mirror([currentSeg EXCEPT !.versions = <<VersionZero(currentSeg), NewVersion(r)>>,
                                   !.versionsRef = ref,
                                   !.currentVersionIndex = 1],
                NewVersion(r))
    ELSE Mirror([currentSeg EXCEPT
                    !.versions[currentSeg.currentVersionIndex + 1] = NewVersion(r)],
                NewVersion(r))

\* modes 'full' and 'text': setContext(prev => ...) appends a version
RegeneratedSegment(currentSeg, r, ref) ==
    LET base == IF currentSeg.versions = <<>>
                THEN [currentSeg EXCEPT !.versions = <<VersionZero(currentSeg)>>,
                                        !.versionsRef = ref,
                                        !.currentVersionIndex = 0]
                ELSE currentSeg
        newVersion == NewVersion(r)
        pushed == [base EXCEPT !.versions = Append(@, newVersion)]
    IN Mirror([pushed EXCEPT !.currentVersionIndex = Len(pushed.versions) - 1],
              newVersion)

RegeneratedVersion(prev, lastIdx, r, ref) ==
    LET seg == RegeneratedSegment(SegAt(prev.history, lastIdx), r, ref)
    IN [prev EXCEPT !.history = SetAt(@, lastIdx, seg),
                    !.currentSegment = seg,
                    !.memories = IF r.newMemories # <<>> THEN r.newMemories ELSE @]

\* currentSeg.versions.push(newVersion) as another holder of the array sees
\* it: the spread copy of a segment shares its versions array, so the push
\* lengthens the list of every segment that holds the array ref
Pushed(seg, ref, newVersion) ==
    IF ref # 0 /\ seg.versionsRef = ref
    THEN [seg EXCEPT !.versions = Append(@, newVersion)]
    ELSE seg

PushedHistory(history, ref, newVersion) ==
    [k \in 1..Len(history) |-> Pushed(history[k], ref, newVersion)]

PushedContext(ctx, ref, newVersion) ==
    [ctx EXCEPT !.history = PushedHistory(@, ref, newVersion),
                !.currentSegment = Pushed(@, ref, newVersion)]

PushedSaves(saves, ref, newVersion) ==
    [k \in 1..Len(saves) |->
        [saves[k] EXCEPT !.context = PushedContext(@, ref, newVersion)]]

\* the closures of the handlers in flight hold contexts too
PushedPending(ops, ref, newVersion) ==
    [k \in 1..Len(ops) |->
        [ops[k] EXCEPT !.ctx = PushedContext(@, ref, newVersion),
                       !.hist = PushedHistory(@, ref, newVersion)]]

\* the array a regeneration pushes on when the segment has one already, 0
\* when it makes a new one
PushedRef(history, op) ==
    IF op.mode # "choices" /\ SegAt(history, op.lastIdx).versions # <<>>
    THEN SegAt(history, op.lastIdx).versionsRef
    ELSE 0

RegenerateReturns(i, failing, r) ==
    /\ i \in 1..Len(pending)
    /\ pending[i].kind = "regen"
    /\ WithModelFallbackSucceeds(aiModel, failing)
    /\ uuid + 1 <= MaxIds
    /\ context' = IF pending[i].mode = "choices"
                  THEN RegeneratedChoices(context, pending[i].lastIdx, r)
                  ELSE RegeneratedVersion(context, pending[i].lastIdx, r, uuid + 1)
    /\ LET ref == PushedRef(context.history, pending[i])
       IN /\ savedGames' = PushedSaves(savedGames, ref, NewVersion(r))
          /\ deletedSavesStack' =
                 [k \in 1..Len(deletedSavesStack) |->
                     PushedSaves(deletedSavesStack[k], ref, NewVersion(r))]
          /\ pending' = RemoveAt(PushedPending(pending, ref, NewVersion(r)), i)
    /\ uuid' = uuid + 1
    /\ isLoading' = FALSE
    /\ service' = service
    /\ probe' = RegeneratedProbe(pending[i].mode, SegAt(context.history, pending[i].lastIdx))
    /\ UNCHANGED <<modal, gameState, error, storage, abortCtl>>

\* a move of the index that stops at the ends of the list
SwitchedIndexClamped(current, n, direction) ==
    LET moved == current + (IF direction = "next" THEN 1 ELSE -1)
    IN IF moved < 0 THEN 0 ELSE IF moved >= n THEN n - 1 ELSE moved

\* the index handleSwitchVersion moves to, with wraparound
SwitchedIndex(current, n, direction) ==
    LET moved == current + (IF direction = "next" THEN 1 ELSE -1)
    IN IF moved < 0 THEN n - 1 ELSE IF moved >= n THEN 0 ELSE moved

SwitchedContext(prev, segmentId, direction) ==
    LET matches == {k \in 1..Len(prev.history) : prev.history[k].id = segmentId}
    IN IF matches = {} THEN prev
       ELSE LET k == CHOOSE m \in matches : \A o \in matches : m <= o
                seg == prev.history[k]
                newIdx == SwitchedIndex(seg.currentVersionIndex, Len(seg.versions),
                                        direction)
                switched == Mirror([seg EXCEPT !.currentVersionIndex = newIdx],
                                   seg.versions[newIdx + 1])
            IN IF Len(seg.versions) < 2 \/ newIdx = seg.currentVersionIndex THEN prev
               ELSE [prev EXCEPT
                        !.history = [@ EXCEPT ![k] = switched],
                        !.currentSegment =
                            IF @.id = segmentId THEN switched ELSE @]

HandleSwitchVersion(segmentId, direction) ==
    /\ context' = SwitchedContext(context, segmentId, direction)
    /\ service' = service
    /\ probe' = SwitchProbe(probe, context.history, segmentId, direction)
    /\ UNCHANGED <<modal, gameState, isLoading, error, savedGames,
                   deletedSavesStack, storage, abortCtl, pending, uuid>>

UpdatedSegmentText(prev, segmentId, newText) ==
    [prev EXCEPT
        !.history = [k \in 1..Len(@) |->
                        IF @[k].id = segmentId THEN [@[k] EXCEPT !.text = newText]
                        ELSE @[k]],
        !.currentSegment = IF @ # NoSeg /\ @.id = segmentId
                           THEN [@ EXCEPT !.text = newText] ELSE @]

HandleUpdateSegmentText(segmentId, newText) ==
    /\ context' = UpdatedSegmentText(context, segmentId, newText)
    /\ service' = service
    /\ probe' = NoProbe
    /\ UNCHANGED <<modal, gameState, isLoading, error, savedGames,
                   deletedSavesStack, storage, abortCtl, pending, uuid>>

(***************************************************************************)
(* handleGlobalReplace                                                     *)
(***************************************************************************)
StartsWith(str, find) ==
    /\ Len(find) <= Len(str)
    /\ SubSeq(str, 1, Len(find)) = find

\* (s.match(regex) || []).length for a literal, global pattern
RECURSIVE CountIn(_, _)
CountIn(str, find) ==
    IF Len(str) < Len(find) THEN 0
    ELSE IF StartsWith(str, find)
         THEN 1 + CountIn(SubSeq(str, Len(find) + 1, Len(str)), find)
         ELSE CountIn(Tail(str), find)

\* s.replace(regex, replaceText)
RECURSIVE ReplaceAll(_, _, _)
ReplaceAll(str, find, rep) ==
    IF Len(str) < Len(find) THEN str
    ELSE IF StartsWith(str, find)
         THEN rep \o ReplaceAll(SubSeq(str, Len(find) + 1, Len(str)), find, rep)
         ELSE <<Head(str)>> \o ReplaceAll(Tail(str), find, rep)

ReplaceChoices(choices, find, rep) ==
    [k \in 1..Len(choices) |-> ReplaceAll(choices[k], find, rep)]

RECURSIVE SumSeq(_)
SumSeq(ns) == IF ns = <<>> THEN 0 ELSE Head(ns) + SumSeq(Tail(ns))

\* only the last 5 segments of the history are searched and rewritten
ReplaceLimit == 5

ReplaceCount(ctx, find) ==
    LET start == Max(0, Len(ctx.history) - ReplaceLimit)
    IN CountIn(ctx.memories, find) +
       SumSeq([k \in 1..(Len(ctx.history) - start) |->
                  CountIn(ctx.history[start + k].text, find) +
                  SumSeq([c \in 1..Len(ctx.history[start + k].choices) |->
                             CountIn(ctx.history[start + k].choices[c], find)])])

GloballyReplaced(prev, find, rep) ==
    LET hStart == Max(0, Len(prev.history) - ReplaceLimit)
    IN [prev EXCEPT
          !.memories = ReplaceAll(@, find, rep),
          !.history = [k \in 1..Len(@) |->
                          IF k > hStart
                          THEN [@[k] EXCEPT !.text = ReplaceAll(@, find, rep),
                                            !.choices = ReplaceChoices(@, find, rep)]
                          ELSE @[k]],
          !.currentSegment =
              IF @ = NoSeg THEN @
              ELSE [@ EXCEPT !.text = ReplaceAll(@, find, rep),
                             !.choices = ReplaceChoices(@, find, rep)]]

HandleGlobalReplace(find, rep) ==
    /\ find # <<>> /\ rep # <<>>
    /\ ReplaceCount(context, find) > 0
    /\ context' = GloballyReplaced(context, find, rep)
    /\ service' = service
    /\ probe' = NoProbe
    /\ UNCHANGED <<modal, gameState, isLoading, error, savedGames,
                   deletedSavesStack, storage, abortCtl, pending, uuid>>

(***************************************************************************)
(* Scheduled events                                                        *)
(***************************************************************************)
\* handleAddScheduledEvent: the new event gets an id, the turn and 'pending'
HandleAddScheduledEvent(description) ==
    /\ uuid + 1 <= MaxIds
    /\ context' = [context EXCEPT !.scheduledEvents =
                      Append(@, [id |-> uuid + 1, createdTurn |-> Len(context.history),
                                 status |-> "pending", description |-> description])]
    /\ uuid' = uuid + 1
    /\ service' = service
    /\ probe' = NoProbe
    /\ UNCHANGED <<modal, gameState, isLoading, error, savedGames, deletedSavesStack,
                   storage, abortCtl, pending>>

\* scheduledEvents.map(e => e.id === updatedEvent.id ? updatedEvent : e)
UpdatedEvents(events, updatedEvent) ==
    [k \in 1..Len(events) |->
        IF events[k].id = updatedEvent.id THEN updatedEvent ELSE events[k]]

HandleUpdateScheduledEvent(updatedEvent) ==
    /\ context' = [context EXCEPT !.scheduledEvents = UpdatedEvents(@, updatedEvent)]
    /\ service' = service
    /\ probe' = NoProbe
    /\ UNCHANGED <<modal, gameState, isLoading, error, savedGames, deletedSavesStack,
                   storage, abortCtl, pending, uuid>>

\* scheduledEvents.filter(e => e.id !== id)
HandleDeleteScheduledEvent(id) ==
    /\ context' = [context EXCEPT !.scheduledEvents = SelectSeq(@, LAMBDA e : e.id # id)]
    /\ service' = service
    /\ probe' = NoProbe
    /\ UNCHANGED <<modal, gameState, isLoading, error, savedGames, deletedSavesStack,
                   storage, abortCtl, pending, uuid>>

(***************************************************************************)
(* Inputs.                                                                 *)
(***************************************************************************)
ShortText == <<"a">>

LongText == <<"b", "b">>

AllModels == {"gemini-2.5-pro", "gemini-2.5-flash"}

\* which models fail: none, the preferred one only, all of the chain
FailureSets == {{}, {"gemini-2.5-pro"}, AllModels}

\* answers that differ in what they add to the chapter's counters
QuietAnswer == Response(ShortText, <<ShortText>>, "calm", "", <<>>, 0)

EventAnswer == Response(LongText, <<LongText>>, "tense", "inn", OtherName, ForeignEvent)

KeyAnswer == Response(LongText, <<ShortText>>, "tense", "inn", LongKeyName, ForeignEvent)

Answers == {QuietAnswer, KeyAnswer}

OpeningAnswers == {Response(LongText, <<LongText>>, "tense", "inn", KeyName, 0)}

\* word-count range of a planning request and the targets the backend proposes
PlanRange == <<2, 3>>

PlanTargets == {<<1, 4>>}

\* no handler is in flight: the player waits for one request to end before
\* the next
Idle == pending = <<>>

(***************************************************************************)
(* The chapter tracker under planning, openings, turns and loads, one      *)
(* request at a time.                                                      *)
(***************************************************************************)
ChapterNext ==
    \/ gameState = LANDING /\ HandleStartNewGameSetup
    \/ SetupCharacter("hero", "brave")
    \/ \E config \in BOOLEAN : Idle /\ HandleAutoPlanBlueprint(config)
    \/ \E i \in 1..MaxPending, t \in PlanTargets :
           AutoPlanReturns(i, t, PlanRange[1], PlanRange[2], <<>>)
    \/ Idle /\ HandleStartGame
    \/ \E i \in 1..MaxPending, r \in OpeningAnswers : StartGameOpeningReturns(i, {}, r)
    \/ \E i \in 1..MaxPending : StartGameImagesReturn(i, TRUE, TRUE, {})
    \/ \E i \in 1..MaxPending : StartGameCommit(i, TRUE)
    \/ Idle /\ HandleChoice("go", -1)
    \/ \E i \in 1..MaxPending, r \in Answers : ChoiceReturns(i, {}, r, TRUE)
    \/ \E k \in 1..Len(savedGames), forceSetup \in BOOLEAN :
           HandleLoadGame(savedGames[k], forceSetup)

SpecChapters == Init /\ [][ChapterNext]_vars

ActiveChapters(bp) == {i \in 1..Len(bp) : bp[i].status = "active"}

\* C1: after any sequence of engine operations the blueprint of the live
\* context holds at most one chapter whose status is active.
C1_AtMostOneActiveChapter == Cardinality(ActiveChapters(context.plotBlueprint)) <= 1

\* C2: once a chapter is completed, no step of handleChoice, handleStartGame or
\* handleAutoPlanBlueprint (the async handlers, whose steps change `pending`)
\* gives the chapter with that id another status.
C2_CompletedStaysCompleted ==
    [][pending' # pending =>
          \A i \in 1..Len(context.plotBlueprint), j \in 1..Len(context'.plotBlueprint) :
              /\ context.plotBlueprint[i].id = context'.plotBlueprint[j].id
              /\ context.plotBlueprint[i].status = "completed"
              => context'.plotBlueprint[j].status = "completed"]_vars

(***************************************************************************)
(* The save list under openings, turns, manual saves, deletes and undo.    *)
(***************************************************************************)
\* the records held in the list and on the undo stack
SavesHeld ==
    Len(savedGames) +
    SumSeq([k \in 1..Len(deletedSavesStack) |-> Len(deletedSavesStack[k])])

\* a request that will write a record is issued only below the bound
RoomForSave == Idle /\ SavesHeld < MaxSaves

SavesNext ==
    \/ gameState = LANDING /\ HandleStartNewGameSetup
    \/ SetupCharacter("hero", "brave")
    \/ RoomForSave /\ HandleStartGame
    \/ \E i \in 1..MaxPending, r \in OpeningAnswers : StartGameOpeningReturns(i, {}, r)
    \/ \E i \in 1..MaxPending : StartGameImagesReturn(i, TRUE, TRUE, {})
    \/ \E i \in 1..MaxPending : StartGameCommit(i, TRUE)
    \/ RoomForSave /\ HandleChoice("go", -1)
    \/ \E i \in 1..MaxPending : ChoiceReturns(i, {}, QuietAnswer, TRUE)
    \/ HandleManualSaveExisting
    \/ RoomForSave /\ HandleManualSave(TRUE)
    \/ \E k \in 1..Len(savedGames) : DeleteSaveGame(savedGames[k].id, TRUE)
    \/ \E k \in 1..Len(savedGames) : DeleteSession(savedGames[k].sessionId, TRUE)
    \/ HandleUndoDelete(TRUE)
    \/ HandleUndoDeleteEmpty

SpecSaves == Init /\ [][SavesNext]_vars

AutoRecords == {r \in Range(savedGames) \cup storage : r.type = AUTO}

C4_DeleteUndoRoundTrip ==
    probe.kind = "undone" =>
        /\ Range(savedGames) = Range(probe.before)
        /\ \A k \in 1..Len(probe.before) :
               probe.before[k].id = probe.id =>
                   \E j \in 1..Len(savedGames) : savedGames[j] = probe.before[k]

\* a delete and its undo happened on a list of several records, and moved the
\* restored record to another place of the list
C4_Witness ==
    /\ probe.kind = "undone"
    /\ Len(probe.before) >= 2
    /\ savedGames # probe.before

(***************************************************************************)
(* The versions of a segment under regeneration, switching and edits.      *)
(***************************************************************************)
SegmentIds == {context.history[k].id : k \in 1..Len(context.history)}

\* a regeneration is asked for only while the last segment is below the bound
RoomForVersion ==
    /\ Idle
    /\ \A k \in 1..Len(context.history) : Len(context.history[k].versions) < MaxVersions

VersionsNext ==
    \/ gameState = LANDING /\ HandleStartNewGameSetup
    \/ SetupCharacter("hero", "brave")
    \/ Idle /\ gameState = SETUP /\ HandleStartGame
    \/ \E i \in 1..MaxPending, r \in OpeningAnswers : StartGameOpeningReturns(i, {}, r)
    \/ \E i \in 1..MaxPending : StartGameImagesReturn(i, TRUE, TRUE, {})
    \/ \E i \in 1..MaxPending : StartGameCommit(i, TRUE)
    \/ HandleRegenerateNoHistory
    \/ \E mode \in {"full", "text", "choices"} : RoomForVersion /\ HandleRegenerate(mode)
    \/ \E i \in 1..MaxPending, r \in Answers : RegenerateReturns(i, {}, r)
    \/ \E id \in SegmentIds, direction \in {"prev", "next"} :
           HandleSwitchVersion(id, direction)
    \/ \E id \in SegmentIds : HandleUpdateSegmentText(id, ShortText)
    \/ HandleGlobalReplace(<<"b">>, <<"c">>)

SpecVersions == Init /\ [][VersionsNext]_vars

\* the live fields of a segment that a version carries
LiveFields(seg) ==
    [text |-> seg.text, choices |-> seg.choices, visualPrompt |-> seg.visualPrompt,
     mood |-> seg.mood, location |-> seg.location]

\* C5: for a segment with n >= 2 versions, right after n calls in a row of
\* handleSwitchVersion(segmentId, 'next') the segment has the active version
\* index and the live fields it had before the first of them.
C5_NextRoundTrip ==
    /\ probe.kind = "next"
    /\ Len(probe.start.versions) >= 2
    /\ probe.count = Len(probe.start.versions)
    => \A k \in 1..Len(context.history) :
           context.history[k].id = probe.segmentId =>
               /\ context.history[k].currentVersionIndex = probe.start.currentVersionIndex
               /\ LiveFields(context.history[k]) = LiveFields(probe.start)

\* C6: every segment of the history whose versions list is non-empty has live
\* text, choices, visualPrompt, mood and location equal to
\* versions[currentVersionIndex].
C6_LiveFieldsMirrorActiveVersion ==
    \A k \in 1..Len(context.history) :
        context.history[k].versions # <<>> =>
            LiveFields(context.history[k]) =
                context.history[k].versions[context.history[k].currentVersionIndex + 1]

(***************************************************************************)
(* Requests in flight together: openings, turns, regenerations, their      *)
(* failures and handleAbortGame.                                           *)
(***************************************************************************)
\* the requests in flight that will write a record
WritersInFlight == Len(SelectSeq(pending, LAMBDA op : op.kind \in {"start", "choice"}))

\* a further opening or turn is asked for only while fewer records than the
\* bound will exist once every request in flight has written its own
RoomForWriter == SavesHeld + WritersInFlight < MaxSaves - 1

\* a further regeneration is asked for only while the versions will stay
\* within the bound once every regeneration in flight has added its own
RoomForRegeneration ==
    \A k \in 1..Len(context.history) :
        Len(context.history[k].versions) +
            Len(SelectSeq(pending, LAMBDA op : op.kind = "regen")) < MaxVersions - 1

AsyncNext ==
    \/ gameState = LANDING /\ HandleStartNewGameSetup
    \/ SetupCharacter("hero", "brave")
    \/ gameState = SETUP /\ RoomForWriter /\ HandleStartGame
    \/ \E i \in 1..MaxPending, failing \in FailureSets, r \in OpeningAnswers :
           StartGameOpeningReturns(i, failing, r)
    \/ \E i \in 1..MaxPending, failing \in FailureSets : StartGameOpeningFails(i, failing)
    \/ \E i \in 1..MaxPending : StartGameImagesReturn(i, TRUE, TRUE, {})
    \/ \E i \in 1..MaxPending : StartGameCommit(i, TRUE)
    \/ context.history # <<>> /\ RoomForWriter /\ HandleChoice("go", -1)
    \/ context.history # <<>> /\ HandleChoiceBusy
    \/ \E i \in 1..MaxPending, failing \in FailureSets :
           ChoiceReturns(i, failing, QuietAnswer, TRUE)
    \/ \E i \in 1..MaxPending, failing \in FailureSets : ChoiceFails(i, failing)
    \/ RoomForRegeneration /\ HandleRegenerate("full")
    \/ \E i \in 1..MaxPending, failing \in FailureSets :
           RegenerateReturns(i, failing, KeyAnswer)
    \/ \E i \in 1..MaxPending, failing \in FailureSets : RegenerateFails(i, failing)
    \/ pending # <<>> /\ HandleAbortGame

SpecAsync == Init /\ [][AsyncNext]_vars

TurnsInFlight == {i \in 1..Len(pending) : pending[i].kind \in {"choice", "regen"}}

\* C7: at most one handleChoice or handleRegenerate request is in flight at a
\* time: a request issued while another one is pending is rejected as busy
\* and starts no backend call.
C7_OneTurnInFlight == Cardinality(TurnsInFlight) <= 1

\* the requests of the given kinds that handleAbortGame has cancelled while
\* they were in flight
Cancelled(ops, kinds) == SelectSeq(ops, LAMBDA op : op.cancelled /\ op.kind \in kinds)

\* the step is one of a cancelled request of these kinds: the request moved
\* to its next await or ended
CancelledStep(kinds) ==
    /\ Cancelled(pending', kinds) # Cancelled(pending, kinds)
    /\ Len(Cancelled(pending', kinds)) <= Len(Cancelled(pending, kinds))

\* C8: a step of a handleStartGame request that handleAbortGame has cancelled
\* changes neither context nor savedGames nor gameState, whenever its backend
\* calls return and whatever was invoked in between.
C8_CancelledOpeningMutatesNothing ==
    [][CancelledStep({"start"}) =>
          /\ context' = context
          /\ savedGames' = savedGames
          /\ gameState' = gameState]_vars

\* C9: the result of a handleChoice or handleRegenerate request that
\* handleAbortGame has cancelled while it awaited the backend changes
\* neither the context nor the saved games.
C9_CancelledTurnIsDiscarded ==
    [][CancelledStep({"choice", "regen"}) =>
          /\ context' = context
          /\ savedGames' = savedGames]_vars

(***************************************************************************)
(* Openings and turns whose generation fails or succeeds after a fallback, *)
(* with handleAbortGame and new openings in between.                       *)
(***************************************************************************)
\* the preferred model fails and the first fallback answers
FallbackAnswers == {"gemini-2.5-pro"}

FailuresNext ==
    \/ gameState = LANDING /\ HandleStartNewGameSetup
    \/ SetupCharacter("hero", "brave")
    \/ gameState = SETUP /\ RoomForWriter /\ HandleStartGame
    \/ \E i \in 1..MaxPending, r \in OpeningAnswers :
           StartGameOpeningReturns(i, FallbackAnswers, r)
    \/ \E i \in 1..MaxPending, failing \in FailureSets : StartGameOpeningFails(i, failing)
    \/ \E i \in 1..MaxPending : StartGameImagesReturn(i, TRUE, TRUE, {})
    \/ \E i \in 1..MaxPending : StartGameCommit(i, TRUE)
    \/ context.history # <<>> /\ RoomForWriter /\ HandleChoice("go", -1)
    \/ context.history # <<>> /\ HandleChoiceBusy
    \/ \E i \in 1..MaxPending : ChoiceReturns(i, FallbackAnswers, QuietAnswer, TRUE)
    \/ \E i \in 1..MaxPending, failing \in FailureSets : ChoiceFails(i, failing)
    \/ pending # <<>> /\ HandleAbortGame

SpecFailures == Init /\ [][FailuresNext]_vars

\* C10: when text generation has failed for every model of the fallback
\* chain in handleChoice or handleStartGame, the step that handles the failure
\* leaves the context and the saved games as they are and sets an error
\* message; the step that issued the request had changed neither.
C10_ExhaustedBackendCommitsNothing ==
    [][/\ probe'.kind = "failed" =>
              /\ context' = context
              /\ savedGames' = savedGames
              /\ storage' = storage
              /\ error' # NoError
       /\ Len(pending') > Len(pending) =>
              /\ context' = context
              /\ savedGames' = savedGames]_vars

\* a turn of a running game has just failed on every model
C10_Witness ==
    /\ probe.kind = "failed"
    /\ probe.handler = "choice"
    /\ context.history # <<>>
    /\ savedGames # <<>>
    /\ error = ChoiceErrorMessage

(***************************************************************************)
(* geminiService followed step by step: withModelFallback around the       *)
(* operation of generateOpening / advanceStory (generateContent, then      *)
(* JSON.parse(cleanJson(response.text))).                                  *)
(***************************************************************************)
\* a model the fallback table has no entry for
CustomModel == "custom-model"

\* generateContent rejects: an answer that is no text
NetworkError == <<"network error">>

\* no failure caught yet: let lastError = null
NoFailure == [model |-> "", kind |-> "none"]

\* new Error(`All models failed for ${primaryModel}`)
AllModelsFailed(primaryModel) == [model |-> primaryModel, kind |-> "all models failed"]

\* JSON.parse over the texts cleanJson can return here: an empty object, an
\* empty array or arrays nested in one another parse, anything else raises
RECURSIVE JsonParses(_)
JsonParses(str) ==
    \/ str = <<"{", "}">>
    \/ str = <<"[", "]">>
    \/ /\ Len(str) > 2
       /\ Head(str) = "[" /\ str[Len(str)] = "]"
       /\ JsonParses(SubSeq(str, 2, Len(str) - 1))

(***************************************************************************)
(* cleanJson.  A text is a sequence of tokens: the four brackets, "a" an   *)
(* ordinary character, " " a whitespace character, "c" a control character *)
(* of the stripped ranges, "F" a code fence ``` and "J" the fence ```json. *)
(***************************************************************************)
EmptyObject == <<"{", "}">>

EmptyArray == <<"[", "]">>

\* str.indexOf(ch): 0-based, -1 when absent
IndexOf(str, ch) ==
    IF \E k \in 1..Len(str) : str[k] = ch
    THEN (CHOOSE k \in 1..Len(str) : str[k] = ch /\ \A j \in 1..(k - 1) : str[j] # ch) - 1
    ELSE -1

\* str.lastIndexOf(ch)
LastIndexOf(str, ch) ==
    IF \E k \in 1..Len(str) : str[k] = ch
    THEN (CHOOSE k \in 1..Len(str) : str[k] = ch /\ \A j \in (k + 1)..Len(str) : str[j] # ch) - 1
    ELSE -1

\* the whitespace a match of \s* eats at the head of str
RECURSIVE SkipSpaces(_)
SkipSpaces(str) ==
    IF str # <<>> /\ Head(str) = " " THEN SkipSpaces(Tail(str)) ELSE str

\* text.replace(/```json\s*|```/gi, '')
RECURSIVE StripFences(_)
StripFences(str) ==
    IF str = <<>> THEN <<>>
    ELSE IF Head(str) = "J" THEN StripFences(SkipSpaces(Tail(str)))
    ELSE IF Head(str) = "F" THEN StripFences(Tail(str))
    ELSE <<Head(str)>> \o StripFences(Tail(str))

RECURSIVE TrimEnd(_)
TrimEnd(str) ==
    IF str # <<>> /\ str[Len(str)] = " " THEN TrimEnd(SubSeq(str, 1, Len(str) - 1))
    ELSE str

\* str.trim()
Trim(str) == TrimEnd(SkipSpaces(str))

\* a normalizer that leaves the control characters in
StripControlNothing(str) == str

\* cleaned.replace(/[\x00-\x09\x0B-\x1F\x7F]/g, '')
StripControl(str) == SelectSeq(str, LAMBDA ch : ch # "c")

\* what cleanJson returns when no bracket pair is found
CleanJsonNoPair(isArray) == EmptyObject

cleanJson(text) ==
    IF text = <<>> THEN EmptyObject
    ELSE LET cleaned == Trim(StripFences(text))
             firstBrace == IndexOf(cleaned, "{")
             firstBracket == IndexOf(cleaned, "[")
             object == firstBrace # -1 /\ (firstBracket = -1 \/ firstBrace < firstBracket)
             isArray == ~object /\ firstBracket # -1
             startIndex == IF object THEN firstBrace
                           ELSE IF isArray THEN firstBracket ELSE -1
             endIndex == IF object THEN LastIndexOf(cleaned, "}")
                         ELSE IF isArray THEN LastIndexOf(cleaned, "]") ELSE -1
         IN IF startIndex # -1 /\ endIndex # -1 /\ endIndex >= startIndex
            THEN LET stripped == Trim(StripControl(SubSeq(cleaned, startIndex + 1, endIndex + 1)))
                 IN IF stripped # <<>> THEN stripped
                    ELSE IF isArray THEN EmptyArray ELSE EmptyObject
            ELSE CleanJsonNoPair(isArray)

(***************************************************************************)
(* withModelFallback, one loop iteration per step.  `answers` gives what   *)
(* generateContent does for each model: it fails, or it answers a text.    *)
(***************************************************************************)
\* the operation passed by generateOpening / advanceStory: generateContent,
\* then JSON.parse(cleanJson(response.text || "{}"))
Operation(model, answers) ==
    IF answers[model] = NetworkError
    THEN [ok |-> FALSE, error |-> [model |-> model, kind |-> "network"]]
    ELSE LET cleaned == cleanJson(answers[model])
         IN IF JsonParses(cleaned)
            THEN [ok |-> TRUE, json |-> cleaned, model |-> model]
            ELSE [ok |-> FALSE, error |-> [model |-> model, kind |-> "syntax"]]

\* withModelFallback(primaryModel, TEXT_MODEL_FALLBACKS, operation) is entered
FallbackCall(primaryModel, answers) ==
    [op |-> "fallback", primaryModel |-> primaryModel, answers |-> answers,
     modelsToTry |-> ModelsToTry(primaryModel), i |-> 1, calls |-> <<>>,
     lastError |-> NoFailure, status |-> "running", result |-> <<>>,
     thrown |-> NoFailure]

\* catch (error) { lastError = error }, as a mutation that keeps the first
RecordedErrorFirst(lastError, caught) == IF lastError = NoFailure THEN caught ELSE lastError

\* catch (error) { lastError = error }
RecordedError(lastError, caught) == caught

\* one iteration of for (const model of modelsToTry)
FallbackTry ==
    /\ service.op = "fallback" /\ service.status = "running"
    /\ service.i <= Len(service.modelsToTry)
    /\ LET model == service.modelsToTry[service.i]
           outcome == Operation(model, service.answers)
       IN service' =
             IF outcome.ok
             THEN [service EXCEPT !.calls = Append(@, model), !.status = "returned",
                                  !.result = outcome.json]
             ELSE [service EXCEPT !.calls = Append(@, model), !.i = @ + 1,
                                  !.lastError = RecordedError(@, outcome.error)]
    /\ UNCHANGED <<gameState, isLoading, error, modal, context, savedGames,
                   deletedSavesStack, storage, abortCtl, pending, uuid, probe>>

\* throw lastError || new Error(`All models failed for ${primaryModel}`)
FallbackThrow ==
    /\ service.op = "fallback" /\ service.status = "running"
    /\ service.i > Len(service.modelsToTry)
    /\ service' = [service EXCEPT
           !.status = "thrown",
           !.thrown = IF service.lastError # NoFailure THEN service.lastError
                      ELSE AllModelsFailed(service.primaryModel)]
    /\ UNCHANGED <<gameState, isLoading, error, modal, context, savedGames,
                   deletedSavesStack, storage, abortCtl, pending, uuid, probe>>

\* inputs: the preferred models, and for every model a failure, a fenced
\* empty object or a text with brackets that is no JSON
PreferredModels == {aiModel, "gemini-2.5-flash", CustomModel}

CalledModels == {"gemini-2.5-pro", "gemini-2.5-flash", "gemini-flash-lite-latest", CustomModel}

FencedObject == <<"J", " ", "{", "}", "F">>

BrokenObject == <<"{", "a", "}">>

ModelAnswers == [CalledModels -> {NetworkError, FencedObject, BrokenObject}]

FallbackInit ==
    /\ EngineInit
    /\ service \in {FallbackCall(m, answers) : m \in PreferredModels, answers \in ModelAnswers}

FallbackNext == FallbackTry \/ FallbackThrow

SpecFallback == FallbackInit /\ [][FallbackNext]_vars

\* C11: once a model has answered a text that cannot be parsed as JSON, the
\* request fails with that error: no further model is called.
C11_ParseFailureStopsTheChain ==
    service.op = "fallback" =>
        \A k \in 1..Len(service.calls) :
            /\ service.answers[service.calls[k]] # NetworkError
            /\ ~JsonParses(cleanJson(service.answers[service.calls[k]]))
            => k = Len(service.calls)

\* C17: withModelFallback calls the operation on [preferredModel] ++
\* fallbackTable[preferredModel] in that order, each candidate at most once;
\* no call follows a successful one, whose result is returned; it fails only
\* after every candidate has failed, after exactly one call when the
\* preferred model has no fallback entry.
C17_CandidatesInOrderOnce ==
    service.op = "fallback" =>
        LET candidates == <<service.primaryModel>> \o
                              TEXT_MODEL_FALLBACKS(service.primaryModel)
            calls == service.calls
            outcome(k) == Operation(calls[k], service.answers)
        IN /\ Len(calls) <= Len(candidates)
           /\ \A k \in 1..Len(calls) : calls[k] = candidates[k]
           /\ \A j, k \in 1..Len(calls) : j # k => calls[j] # calls[k]
           /\ \A k \in 1..(Len(calls) - 1) : ~outcome(k).ok
           /\ service.status = "returned" =>
                  /\ calls # <<>>
                  /\ outcome(Len(calls)).ok
                  /\ service.result = outcome(Len(calls)).json
           /\ service.status = "thrown" =>
                  /\ calls = candidates
                  /\ \A k \in 1..Len(calls) : ~outcome(k).ok
           /\ service.status = "thrown" /\ service.primaryModel = CustomModel =>
                  calls = <<CustomModel>>

\* the preferred model failed and its fallback answered
C17_Witness ==
    /\ service.op = "fallback"
    /\ service.status = "returned"
    /\ Len(service.calls) = 2

\* C18: when every candidate has failed, withModelFallback fails with the
\* failure of the last candidate it tried; the synthetic 'all models failed'
\* error is raised only when no failure was recorded.
C18_LastFailureIsRaised ==
    service.op = "fallback" /\ service.status = "thrown" =>
        /\ service.thrown.kind = "all models failed" => service.calls = <<>>
        /\ service.calls # <<>> =>
               service.thrown =
                   Operation(service.calls[Len(service.calls)], service.answers).error

\* two candidates failed in two different ways
C18_Witness ==
    /\ service.op = "fallback"
    /\ service.status = "thrown"
    /\ Len(service.calls) = 2
    /\ Operation(service.calls[1], service.answers).error.kind # service.thrown.kind

(***************************************************************************)
(* cleanJson applied to every text of up to MaxTextLen tokens.             *)
(***************************************************************************)
Tokens == {"{", "}", "[", "]", "a", " ", "c", "F", "J"}

Texts == UNION {[1..n -> Tokens] : n \in 0..MaxTextLen}

CleanJsonCall(text) == [op |-> "cleanJson", text |-> text, status |-> "called", result |-> <<>>]

CleanJsonReturns ==
    /\ service.op = "cleanJson" /\ service.status = "called"
    /\ service' = [service EXCEPT !.status = "returned", !.result = cleanJson(service.text)]
    /\ UNCHANGED <<gameState, isLoading, error, modal, context, savedGames,
                   deletedSavesStack, storage, abortCtl, pending, uuid, probe>>

CleanJsonInit ==
    /\ EngineInit
    /\ service \in {CleanJsonCall(text) : text \in Texts}

SpecCleanJson == CleanJsonInit /\ [][CleanJsonReturns]_vars

\* str holds sub as a run of consecutive tokens
IsSubstring(sub, str) ==
    \E a \in 1..(Len(str) + 1) :
        /\ a + Len(sub) - 1 <= Len(str)
        /\ SubSeq(str, a, a + Len(sub) - 1) = sub

\* the first opening bracket of a text and the closing bracket of its kind
Openers(str) == {k \in 1..Len(str) : str[k] \in {"{", "["}}

FirstOpener(str) == CHOOSE k \in Openers(str) : \A j \in Openers(str) : k <= j

CloserOf(opener) == IF opener = "{" THEN "}" ELSE "]"

\* a call has returned with this text and this result
Cleaned(text, result) ==
    /\ service.op = "cleanJson" /\ service.status = "returned"
    /\ service.text = text /\ service.result = result

Solid(str) == SelectSeq(str, LAMBDA ch : ch \in {"{", "}", "[", "]", "a"})

\* the last closing bracket of the kind of the first opening bracket, 0 if none
LastCloser(str) ==
    LET closers == {k \in 1..Len(str) : str[k] = CloserOf(str[FirstOpener(str)])}
    IN IF closers = {} THEN 0 ELSE CHOOSE k \in closers : \A j \in closers : j <= k

C20_EmptyValueOfTheContext ==
    /\ service.op = "cleanJson" /\ service.status = "returned"
    /\ \/ Openers(service.text) = {}
       \/ LastCloser(service.text) < FirstOpener(service.text)
    => service.result =
           IF Openers(service.text) # {} /\ service.text[FirstOpener(service.text)] = "["
           THEN EmptyArray ELSE EmptyObject

(***************************************************************************)
(* The turns of handleChoice and the chapter they advance.                 *)
(***************************************************************************)
\* the targets the backend proposes: a plan of one chapter, a plan of two
TurnPlans == {<<1>>, <<1, 4>>}

\* planning, openings and turns, one request at a time
TurnsNext ==
    \/ gameState = LANDING /\ HandleStartNewGameSetup
    \/ SetupCharacter("hero", "brave")
    \/ \E config \in BOOLEAN : Idle /\ HandleAutoPlanBlueprint(config)
    \/ \E i \in 1..MaxPending, t \in TurnPlans :
           AutoPlanReturns(i, t, PlanRange[1], PlanRange[2], <<>>)
    \/ Idle /\ HandleStartGame
    \/ \E i \in 1..MaxPending, r \in OpeningAnswers : StartGameOpeningReturns(i, {}, r)
    \/ \E i \in 1..MaxPending : StartGameImagesReturn(i, TRUE, TRUE, {})
    \/ \E i \in 1..MaxPending : StartGameCommit(i, TRUE)
    \/ Idle /\ HandleChoice("go", -1)
    \/ \E i \in 1..MaxPending, r \in Answers : ChoiceReturns(i, {}, r, TRUE)

SpecTurns == Init /\ [][TurnsNext]_vars

\* this step commits the turn pending[i]
TurnCommits(i) ==
    /\ i \in 1..Len(pending)
    /\ pending[i].kind = "choice"
    /\ pending' = RemoveAt(pending, i)
    /\ uuid' > uuid

\* the chapter at index a of blueprint bp with the segment seg added reaches
\* its three goals
GoalsReached(bp, a, seg) ==
    LET chapter == bp[a]
        words == chapter.trackedStats.currentWordCount + Len(seg.text)
        events == chapter.trackedStats.eventsTriggered +
                  (IF seg.triggeredEventId # 0 THEN 1 ELSE 0)
        interactions ==
            chapter.trackedStats.interactionsCount +
            (IF \E k \in 1..Len(chapter.keyCharacters) :
                    /\ seg.activeCharacterName # <<>>
                    /\ Includes(seg.activeCharacterName, chapter.keyCharacters[k])
             THEN 1 ELSE 0)
    IN /\ words >= chapter.targetWordCount
       /\ events >= chapter.completionCriteria.minKeyEvents
       /\ interactions >= chapter.completionCriteria.minInteractions

\* C12: a turn of handleChoice marks the chapter that was active in the
\* blueprint it started from completed exactly when that chapter, with the
\* turn's segment added, has reached its word, event and interaction goals;
\* on completion its finishedTurnCount goes up by one and the chapter at the
\* next index, if there is one, becomes active.
C12_CompletedExactlyWhenGoalsReached ==
    [][\A i \in 1..Len(pending) :
          TurnCommits(i) /\ ActiveChapters(pending[i].ctx.plotBlueprint) # {} =>
              LET bp == pending[i].ctx.plotBlueprint
                  after == context'.plotBlueprint
                  a == CHOOSE k \in ActiveChapters(bp) : \A j \in ActiveChapters(bp) : k <= j
                  reached == GoalsReached(bp, a, context'.currentSegment)
              IN /\ Len(after) = Len(bp)
                 /\ after[a].status = "completed" <=> reached
                 /\ ~reached => after[a].status = "active"
                 /\ reached =>
                        /\ after[a].finishedTurnCount = bp[a].finishedTurnCount + 1
                        /\ a < Len(bp) => after[a + 1].status = "active"]_vars

\* a turn completed the first chapter and made the second one active, and a
\* later turn added to the second chapter without completing it
C12_Witness ==
    /\ Len(context.plotBlueprint) >= 2
    /\ Len(context.history) >= 3
    /\ context.plotBlueprint[1].status = "completed"
    /\ context.plotBlueprint[1].finishedTurnCount = 1
    /\ context.plotBlueprint[2].status = "active"
    /\ context.plotBlueprint[2].trackedStats.currentWordCount > 0

\* the last chapter of the blueprint is completed
Ended(bp) == bp # <<>> /\ bp[Len(bp)].status = "completed"

\* C13: no chapter is skipped and the end is stable.  On a turn at most one
\* chapter becomes active, and it is the one right after the chapter the
\* turn completed; a turn that completes the last chapter leaves no chapter
\* active; a turn that starts with no active chapter is committed without
\* an error and leaves the whole blueprint as it was; and once the last
\* chapter is completed and none is active, no step makes a chapter active.
C13_InOrderAndStableEnd ==
    [][/\ \A i \in 1..Len(pending) :
             TurnCommits(i) =>
                 LET bp == pending[i].ctx.plotBlueprint
                     after == context'.plotBlueprint
                     activated == {k \in 1..Len(after) :
                                      /\ after[k].status = "active"
                                      /\ bp[k].status # "active"}
                     completed == {k \in 1..Len(after) :
                                      /\ after[k].status = "completed"
                                      /\ bp[k].status # "completed"}
                 IN /\ Len(after) = Len(bp)
                    /\ Cardinality(activated) <= 1
                    /\ \A k \in activated : k - 1 \in completed
                    /\ Len(bp) \in completed => ActiveChapters(after) = {}
                    /\ ActiveChapters(bp) = {} => after = bp /\ error' = error
       /\ Ended(context.plotBlueprint) /\ ActiveChapters(context.plotBlueprint) = {} =>
              ActiveChapters(context'.plotBlueprint) = {}]_vars

(***************************************************************************)
(* handleRegenerate                                                        *)
(***************************************************************************)
\* this step commits the regeneration pending[i]
RegenerationCommits(i) ==
    /\ i \in 1..Len(pending)
    /\ pending[i].kind = "regen"
    /\ pending' = RemoveAt(pending, i)
    /\ uuid' > uuid

\* C14: a regeneration in mode 'choices' gives the last segment the choices
\* of the backend's answer and leaves the text and the visualPrompt of that
\* segment as they were.
C14_ChoicesModeKeepsText ==
    [][\A i \in 1..Len(pending) :
          RegenerationCommits(i) /\ pending[i].mode = "choices" =>
              LET k == pending[i].lastIdx + 1
              IN /\ k = Len(context.history)
                 /\ Len(context'.history) = Len(context.history)
                 /\ \E r \in Answers : context'.history[k].choices = r.choices
                 /\ context'.history[k].text = context.history[k].text
                 /\ context'.history[k].visualPrompt = context.history[k].visualPrompt]_vars

\* the opening has the choices of a later answer and its own text, and no
\* version was ever added to it: its choices alone were regenerated
C14_Witness ==
    /\ Len(context.history) = 1
    /\ context.history[1].versions = <<>>
    /\ context.history[1].choices = QuietAnswer.choices
    /\ \A r \in OpeningAnswers :
           context.history[1].choices # r.choices /\ context.history[1].text = r.text

\* the choices a turn is taken with: a choice of the segment, an empty string
TurnChoices == {"go", ""}

\* openings, turns and regenerations, one request at a time
RegenerateNext ==
    \/ gameState = LANDING /\ HandleStartNewGameSetup
    \/ SetupCharacter("hero", "brave")
    \/ Idle /\ gameState = SETUP /\ HandleStartGame
    \/ \E i \in 1..MaxPending, r \in OpeningAnswers : StartGameOpeningReturns(i, {}, r)
    \/ \E i \in 1..MaxPending : StartGameImagesReturn(i, TRUE, TRUE, {})
    \/ \E i \in 1..MaxPending : StartGameCommit(i, TRUE)
    \/ \E choice \in TurnChoices : Idle /\ HandleChoice(choice, -1)
    \/ \E i \in 1..MaxPending : ChoiceReturns(i, {}, QuietAnswer, TRUE)
    \/ HandleRegenerateNoHistory
    \/ \E mode \in {"full", "text", "choices"} : HandleRegenerateRejected(mode)
    \/ \E mode \in {"full", "text", "choices"} : RoomForVersion /\ HandleRegenerate(mode)
    \/ \E i \in 1..MaxPending, r \in Answers : RegenerateReturns(i, {}, r)

SpecRegenerate == Init /\ [][RegenerateNext]_vars

\* the last segment is not the opening and the choice that caused it is empty
EmptyCauseAtEnd ==
    /\ Len(context.history) > 1
    /\ context.history[Len(context.history)].causedBy = ""

\* this step issues a regeneration request to the backend
RegenerationIssued ==
    /\ Len(pending') = Len(pending) + 1
    /\ pending'[Len(pending')].kind = "regen"

\* C15: when the last segment is not the opening and its causedBy is empty,
\* a regeneration in any mode ends with the non-regenerable-node error: no
\* request goes to the backend and the context stays as it is.
C15_EmptyCauseIsNeverRegenerated ==
    [][EmptyCauseAtEnd => ~RegenerationIssued]_vars

(***************************************************************************)
(* handleManualSave on a pair that is saved already                        *)
(***************************************************************************)
\* the list holds a record for the session and the segment the player is at
LivePairIsSaved ==
    /\ context.currentSegment # NoSeg
    /\ \E k \in 1..Len(savedGames) :
           /\ savedGames[k].sessionId = context.sessionId
           /\ savedGames[k].storyId = context.currentSegment.id

\* C16: while a saved game exists for the live (sessionId, segment id), no
\* step adds a new manual record to the list or writes one to the storage,
\* no step raises the success notification, and a step that raises a save
\* notification raises the 'already saved' one and leaves the list and the
\* storage as they were.
C16_SavedPairIsNotSavedAgain ==
    [][LivePairIsSaved =>
          /\ \A k \in 1..Len(savedGames') :
                 savedGames'[k].type = MANUAL => savedGames'[k].id <= uuid
          /\ \A s \in storage' : s.type = MANUAL => s.id <= uuid
          /\ modal' = "saveNotification" => modal = "saveNotification"
          /\ modal' # modal =>
                 /\ modal' = "saveExistingNotification"
                 /\ savedGames' = savedGames
                 /\ storage' = storage]_vars

\* a manual save was asked for on a saved pair and answered 'already saved'
C16_Witness ==
    /\ modal = "saveExistingNotification"
    /\ LivePairIsSaved

(***************************************************************************)
(* Openings with their image tasks, turns and manual saves, with storage   *)
(* writes and image calls that may fail.                                   *)
(***************************************************************************)
\* what the player types in the setup screen
TypedNames == {"hero", ""}

TypedTraits == {"brave", ""}

\* the supporting character a plan brings in
PlannedCharacters == <<[name |-> "ally", affinity |-> 0]>>

OpeningNext ==
    \/ gameState = LANDING /\ HandleStartNewGameSetup
    \/ \E name \in TypedNames, trait \in TypedTraits : Idle /\ SetupCharacter(name, trait)
    \/ Idle /\ context.plotBlueprint = <<>> /\ HandleAutoPlanBlueprint(TRUE)
    \/ \E i \in 1..MaxPending :
           AutoPlanReturns(i, <<1>>, PlanRange[1], PlanRange[2], PlannedCharacters)
    \/ HandleStartGameRejected
    \/ RoomForSave /\ gameState = SETUP /\ HandleStartGame
    \/ \E i \in 1..MaxPending, r \in OpeningAnswers : StartGameOpeningReturns(i, {}, r)
    \/ \E i \in 1..MaxPending, avatarOk \in BOOLEAN, sceneOk \in BOOLEAN,
          failed \in SUBSET {1} : StartGameImagesReturn(i, avatarOk, sceneOk, failed)
    \/ \E i \in 1..MaxPending, storageOk \in BOOLEAN : StartGameCommit(i, storageOk)
    \/ RoomForSave /\ context.history # <<>> /\ HandleChoice("go", -1)
    \/ \E i \in 1..MaxPending, storageOk \in BOOLEAN :
           ChoiceReturns(i, {}, QuietAnswer, storageOk)
    \/ \E k \in 1..Len(savedGames) : Idle /\ DeleteSaveGame(savedGames[k].id, TRUE)
    \/ \E storageOk \in BOOLEAN : RoomForSave /\ HandleManualSave(storageOk)

SpecOpening == Init /\ [][OpeningNext]_vars

\* this step issues an opening request to the backend
OpeningIssued ==
    /\ Len(pending') = Len(pending) + 1
    /\ pending'[Len(pending')].kind = "start"

\* C21: while the protagonist has no name or no trait, no step issues an
\* opening request or takes the game to LOADING, and the step that raises
\* the validation error leaves gameState, context, savedGames and the
\* requests in flight as they were.
C21_InvalidStartIsRejected ==
    [][/\ context.character.name = "" \/ context.character.trait = "" =>
              /\ ~OpeningIssued
              /\ gameState' = LOADING => gameState = LOADING
       /\ error' = StartValidationMessage /\ error # StartValidationMessage =>
              /\ context.character.name = "" \/ context.character.trait = ""
              /\ gameState' = gameState
              /\ context' = context
              /\ savedGames' = savedGames
              /\ pending' = pending]_vars

\* a start was asked for with a name and no trait and was refused
C21_Witness ==
    /\ error = StartValidationMessage
    /\ context.character.name # "" /\ context.character.trait = ""
    /\ pending = <<>>

\* C22: an opening whose text has succeeded and that was not cancelled ends
\* in one way only, whatever image task failed: its segment is committed as
\* the history and the game is PLAYING; and the supporting characters of
\* the committed context are those the opening started with, each either
\* as it was or with a new avatar.
C22_ImageFailuresAreTolerated ==
    [][\A i \in 1..Len(pending) :
          /\ pending[i].kind = "start"
          /\ pending[i].stage \in {"images", "pause"}
          /\ pending' = RemoveAt(pending, i)
          /\ abortCtl # "aborted"
          => /\ gameState' = PLAYING
             /\ context'.history = <<pending[i].opening>>
             /\ Len(context'.supportingCharacters) = Len(pending[i].ctx.supportingCharacters)
             /\ \A k \in 1..Len(context'.supportingCharacters) :
                    \/ context'.supportingCharacters[k] = pending[i].ctx.supportingCharacters[k]
                    \/ context'.supportingCharacters[k] =
                           [pending[i].ctx.supportingCharacters[k] EXCEPT !.avatar = "img"]]_vars

\* this step commits the opening pending[i]
OpeningCommits(i) ==
    /\ i \in 1..Len(pending)
    /\ pending[i].kind = "start" /\ pending[i].stage = "pause"
    /\ pending' = RemoveAt(pending, i)
    /\ uuid' > uuid

\* this step is a manual save that made a record
ManualSaveCommits ==
    /\ modal' = "saveNotification"
    /\ uuid' = uuid + 1
    /\ pending' = pending

\* the record this step made (its id is the last one drawn) is not in the store
WriteFailed == \A s \in storage' : s.id # uuid'

\* C23: when the storage write of a turn, of an opening or of a manual save
\* fails, the step still commits in memory: the new record is put at the
\* head of savedGames with the committed context as its snapshot, and the
\* live context holds the committed turn (the opening, or for a manual save
\* what it held).
C23_FailedWriteKeepsTheTransition ==
    [][WriteFailed =>
          /\ \A i \in 1..Len(pending) :
                 TurnCommits(i) \/ OpeningCommits(i) =>
                     /\ savedGames' # <<>>
                     /\ Head(savedGames').id = uuid'
                     /\ Head(savedGames').storyId = context'.currentSegment.id
                     /\ Head(savedGames').context = context'
                     /\ Tail(savedGames') = savedGames
                     /\ context'.history # <<>>
                     /\ context'.history[Len(context'.history)] = context'.currentSegment
                     /\ TurnCommits(i) =>
                            /\ Len(context'.history) = Len(pending[i].hist) + 1
                            /\ context'.currentSegment.id > uuid
                     /\ OpeningCommits(i) => context'.history = <<pending[i].opening>>
          /\ ManualSaveCommits =>
                 /\ savedGames' # <<>>
                 /\ Head(savedGames').id = uuid'
                 /\ Head(savedGames').type = MANUAL
                 /\ Head(savedGames').context = context
                 /\ Tail(savedGames') = savedGames
                 /\ context' = context]_vars

\* the list holds the record of a turn and a manual one, neither of which
\* reached the store
C23_Witness ==
    \E a, c \in 1..Len(savedGames) :
        /\ \A k \in {a, c} : \A s \in storage : s.id # savedGames[k].id
        /\ savedGames[a].type = AUTO /\ savedGames[a].parentId # 0
        /\ savedGames[c].type = MANUAL

(***************************************************************************)
(* Saved games beside the live context: openings, turns, manual saves,     *)
(* deletes and regenerations, one request at a time.                       *)
(***************************************************************************)
SnapshotsNext ==
    \/ gameState = LANDING /\ HandleStartNewGameSetup
    \/ SetupCharacter("hero", "brave")
    \/ RoomForSave /\ gameState = SETUP /\ HandleStartGame
    \/ \E i \in 1..MaxPending, r \in OpeningAnswers : StartGameOpeningReturns(i, {}, r)
    \/ \E i \in 1..MaxPending : StartGameImagesReturn(i, TRUE, TRUE, {})
    \/ \E i \in 1..MaxPending : StartGameCommit(i, TRUE)
    \/ RoomForSave /\ context.history # <<>> /\ HandleChoice("go", -1)
    \/ \E i \in 1..MaxPending : ChoiceReturns(i, {}, QuietAnswer, TRUE)
    \/ \E k \in 1..Len(savedGames) : Idle /\ DeleteSaveGame(savedGames[k].id, TRUE)
    \/ RoomForSave /\ HandleManualSave(TRUE)
    \/ \E mode \in {"full", "text"} : RoomForVersion /\ HandleRegenerate(mode)
    \/ \E i \in 1..MaxPending, r \in Answers : RegenerateReturns(i, {}, r)

SpecSnapshots == Init /\ [][SnapshotsNext]_vars

\* C24: a saved game is immutable once created: a record that is in the list
\* before and after a step has every field, its context snapshot included,
\* as it was.
C24_SavedGamesAreImmutable ==
    [][\A j \in 1..Len(savedGames), k \in 1..Len(savedGames') :
          savedGames[j].id = savedGames'[k].id => savedGames'[k] = savedGames[j]]_vars

(***************************************************************************)
(* Scheduled events under turns and the event editor.                      *)
(***************************************************************************)
\* the events the player schedules in a run
MaxEvents == 1

EventIds == {context.scheduledEvents[k].id : k \in 1..Len(context.scheduledEvents)}

\* what the event editor hands to handleUpdateScheduledEvent: an event of the
\* list with the description of the form, set to wait again
EditedEvents ==
    {[context.scheduledEvents[k] EXCEPT !.status = "pending", !.description = d] :
        k \in 1..Len(context.scheduledEvents), d \in {"duel", "feast"}}

\* a turn whose answer reports event e as triggered
TriggerAnswer(e) == [QuietAnswer EXCEPT !.triggeredEventId = e]

EventsNext ==
    \/ gameState = LANDING /\ HandleStartNewGameSetup
    \/ SetupCharacter("hero", "brave")
    \/ Idle /\ gameState = SETUP /\ HandleStartGame
    \/ \E i \in 1..MaxPending, r \in OpeningAnswers : StartGameOpeningReturns(i, {}, r)
    \/ \E i \in 1..MaxPending : StartGameImagesReturn(i, TRUE, TRUE, {})
    \/ \E i \in 1..MaxPending : StartGameCommit(i, TRUE)
    \/ Idle /\ Len(context.scheduledEvents) < MaxEvents /\ HandleAddScheduledEvent("duel")
    \/ Idle /\ context.history # <<>> /\ HandleChoice("go", -1)
    \/ \E i \in 1..MaxPending, e \in EventIds : ChoiceReturns(i, {}, TriggerAnswer(e), TRUE)
    \/ \E updatedEvent \in EditedEvents : HandleUpdateScheduledEvent(updatedEvent)
    \/ \E id \in EventIds : HandleDeleteScheduledEvent(id)

SpecEvents == Init /\ [][EventsNext]_vars

\* C25: a scheduled event is immutable once completed: an event that is
\* completed before a step is in the list after it, with every field as it
\* was.
C25_CompletedEventsAreImmutable ==
    [][\A j \in 1..Len(context.scheduledEvents) :
          context.scheduledEvents[j].status = "completed" =>
              \E k \in 1..Len(context'.scheduledEvents) :
                  context'.scheduledEvents[k] = context.scheduledEvents[j]]_vars

(***************************************************************************)
(* The auto checkpoint of every opening and turn                           *)
(***************************************************************************)
\* the list `saves` holds an auto checkpoint of the live pair of ctx
HasAutoCheckpoint(saves, ctx) ==
    \E k \in 1..Len(saves) :
        /\ saves[k].type = AUTO
        /\ saves[k].sessionId = ctx.sessionId
        /\ saves[k].storyId = ctx.currentSegment.id

\* C27: every successful opening and every successful turn is followed by an
\* auto checkpoint: after the step that commits it, the committed segment is
\* the live one and savedGames holds a record of type auto with the
\* sessionId of the session and the id of that segment as storyId.
C27_CommitIsFollowedByAutoCheckpoint ==
    [][\A i \in 1..Len(pending) :
          TurnCommits(i) \/ OpeningCommits(i) =>
              /\ context'.sessionId # 0
              /\ context'.currentSegment # NoSeg
              /\ context'.currentSegment.id > uuid
                     \/ context'.currentSegment = pending[i].opening
              /\ context'.history[Len(context'.history)] = context'.currentSegment
              /\ HasAutoCheckpoint(savedGames', context')]_vars

\* an opening and a turn of one session were committed, and the list holds
\* the auto checkpoint of each
C27_Witness ==
    /\ Len(context.history) = 2
    /\ HasAutoCheckpoint(savedGames, context)
    /\ HasAutoCheckpoint(savedGames,
                         [context EXCEPT !.currentSegment = context.history[1]])
    /\ Len(savedGames) = 2

(***************************************************************************)
(* Planning on a blueprint that has chapters                               *)
(***************************************************************************)
\* this step commits the chapters that the plan i in flight was answered with
PlanCommits(i) ==
    /\ i \in 1..Len(pending)
    /\ pending[i].kind = "plan"
    /\ pending' = RemoveAt(pending, i)
    /\ uuid' > uuid

\* C28: handleAutoPlanBlueprint on a blueprint that is not empty appends the
\* new chapters after the existing ones, with or without a configuration
\* argument: every chapter of the blueprint is at its index after the step,
\* with its status and tracked stats, and the new chapters follow.
C28_PlanAppendsToBlueprint ==
    [][\A i \in 1..Len(pending) :
          PlanCommits(i) /\ context.plotBlueprint # <<>> =>
              /\ Len(context'.plotBlueprint) > Len(context.plotBlueprint)
              /\ \A k \in 1..Len(context.plotBlueprint) :
                     context'.plotBlueprint[k] = context.plotBlueprint[k]]_vars

(***************************************************************************)
(* Regeneration and the versions it keeps                                  *)
(***************************************************************************)
\* C29: regeneration is non-destructive: right after a regeneration in mode
\* 'full' or 'text' of the last segment and handleSwitchVersion(segmentId,
\* 'prev'), the text, choices, visualPrompt, mood and location of the segment
\* are those it had before the regeneration.
C29_RegenerateThenPrevRestores ==
    probe.kind = "regeneratedPrev" =>
        \A k \in 1..Len(context.history) :
            context.history[k].id = probe.segmentId =>
                LiveFields(context.history[k]) = LiveFields(probe.before)

\* C30: the version list of a segment is append-only under regeneration: a
\* first regeneration in mode 'full' or 'text' leaves the segment with
\* exactly two versions and the active index 1; a later one appends exactly
\* one version, the answer's, makes it the active one whichever version was
\* active, and leaves the earlier versions as they were.
C30_VersionsAreAppendOnly ==
    [][\A i \in 1..Len(pending) :
          RegenerationCommits(i) /\ pending[i].mode # "choices" =>
              LET before == SegAt(context.history, pending[i].lastIdx)
                  after == SegAt(context'.history, pending[i].lastIdx)
                  n == Len(before.versions)
              IN /\ n = 0 => Len(after.versions) = 2 /\ after.currentVersionIndex = 1
                 /\ n > 0 =>
                        /\ Len(after.versions) = n + 1
                        /\ after.currentVersionIndex = n
                        /\ SubSeq(after.versions, 1, n) = before.versions
                 /\ \E r \in Answers :
                        after.versions[Len(after.versions)] = NewVersion(r)
                 /\ context'.currentSegment = after
                 /\ \A k \in 1..Len(context.history) :
                        k # pending[i].lastIdx + 1 =>
                            context'.history[k] = context.history[k]]_vars

\* a segment with two versions was regenerated while version 0 was the
\* active one, and now has three versions, the last of them active
C30_Witness ==
    /\ probe.kind = "regenerated"
    /\ Len(probe.before.versions) = 2
    /\ probe.before.currentVersionIndex = 0
    /\ \E k \in 1..Len(context.history) :
           /\ context.history[k].id = probe.segmentId
           /\ Len(context.history[k].versions) = 3
           /\ context.history[k].currentVersionIndex = 2

(***************************************************************************)
(* handleSwitchVersion on a history of several segments                    *)
(***************************************************************************)
\* an id that no segment has
UnknownId == MaxIds + 1

\* a game is played, its segments are regenerated and their versions switched
SwitchNext ==
    \/ gameState = LANDING /\ HandleStartNewGameSetup
    \/ SetupCharacter("hero", "brave")
    \/ RoomForSave /\ gameState = SETUP /\ HandleStartGame
    \/ \E i \in 1..MaxPending, r \in OpeningAnswers : StartGameOpeningReturns(i, {}, r)
    \/ \E i \in 1..MaxPending : StartGameImagesReturn(i, TRUE, TRUE, {})
    \/ \E i \in 1..MaxPending : StartGameCommit(i, TRUE)
    \/ RoomForSave /\ gameState = PLAYING /\ HandleChoice("go", -1)
    \/ \E i \in 1..MaxPending : ChoiceReturns(i, {}, QuietAnswer, TRUE)
    \/ \E mode \in {"full", "text"} :
           RoomForVersion /\ gameState = PLAYING /\ HandleRegenerate(mode)
    \/ \E i \in 1..MaxPending : RegenerateReturns(i, {}, KeyAnswer)
    \/ \E id \in SegmentIds \cup {UnknownId}, direction \in {"prev", "next"} :
           HandleSwitchVersion(id, direction)

SpecSwitch == Init /\ [][SwitchNext]_vars

\* the places of history that hold a segment with the id; the named segment
\* is the first of them
Named(history, id) == {k \in 1..Len(history) : history[k].id = id}

FirstNamed(history, id) ==
    {k \in Named(history, id) : \A o \in Named(history, id) : k <= o}

\* C31: handleSwitchVersion never adds, removes or alters a version; it
\* leaves the context as it is when no segment has the id or the segment has
\* fewer than two versions; otherwise it moves the active index of the
\* segment by one with wraparound ('prev' from 0 to the last index, 'next'
\* from the last index to 0), and no segment other than the named one changes.
C31_SwitchMovesTheIndexOnly ==
    [][\A id \in SegmentIds \cup {UnknownId}, direction \in {"prev", "next"} :
          HandleSwitchVersion(id, direction) =>
              /\ Len(context'.history) = Len(context.history)
              /\ \A k \in 1..Len(context.history) :
                     /\ context'.history[k].versions = context.history[k].versions
                     /\ k \notin FirstNamed(context.history, id) =>
                            context'.history[k] = context.history[k]
              /\ context'.currentSegment.versions = context.currentSegment.versions
              /\ context'.currentSegment.id # id =>
                     context'.currentSegment = context.currentSegment
              /\ \/ Named(context.history, id) = {}
                 \/ \E k \in FirstNamed(context.history, id) :
                        Len(context.history[k].versions) < 2
                 => context' = context
              /\ \A k \in FirstNamed(context.history, id) :
                     LET n == Len(context.history[k].versions)
                         was == context.history[k].currentVersionIndex
                         is == context'.history[k].currentVersionIndex
                     IN n >= 2 =>
                            /\ direction = "next" => is = (was + 1) % n
                            /\ direction = "prev" => is = (was + n - 1) % n]_vars

\* 'next' has just wrapped the index of the opening from its last version to
\* 0, while the segment of a turn follows the opening in the history
C31_Witness ==
    /\ Len(context.history) = 2
    /\ probe.kind = "next"
    /\ probe.count = 1
    /\ probe.segmentId = context.history[1].id
    /\ Len(context.history[1].versions) >= 2
    /\ probe.start.currentVersionIndex = Len(context.history[1].versions) - 1
    /\ context.history[1].currentVersionIndex = 0
    /\ context.history[2].versions = <<>>

(***************************************************************************)
(* The tracked stats of the chapters across a turn                         *)
(***************************************************************************)
\* the segment a turn has just committed
Committed(ctx) == ctx.history[Len(ctx.history)]

\* C32: on each turn only the chapter that is active is updated: its
\* currentWordCount grows by the length of the text of the new segment, its
\* eventsTriggered by 1 exactly when the segment carries a triggeredEventId,
\* its interactionsCount by 1 exactly when the segment names a character and
\* the name contains a key character of the chapter; the stats of every
\* other chapter are as they were, and no counter is smaller than it was.
C32_TurnUpdatesTheActiveChapterOnly ==
    [][\A i \in 1..Len(pending) :
          TurnCommits(i) =>
              LET bp == context.plotBlueprint
                  after == context'.plotBlueprint
                  a == ActiveChapterIndex(bp) + 1
                  seg == Committed(context')
                  named == /\ seg.activeCharacterName # <<>>
                           /\ \E k \in 1..Len(bp[a].keyCharacters) :
                                  Includes(seg.activeCharacterName, bp[a].keyCharacters[k])
              IN /\ Len(after) = Len(bp)
                 /\ \A k \in 1..Len(bp) :
                        /\ k # a => after[k].trackedStats = bp[k].trackedStats
                        /\ after[k].trackedStats.currentWordCount >=
                               bp[k].trackedStats.currentWordCount
                        /\ after[k].trackedStats.eventsTriggered >=
                               bp[k].trackedStats.eventsTriggered
                        /\ after[k].trackedStats.interactionsCount >=
                               bp[k].trackedStats.interactionsCount
                 /\ a >= 1 =>
                        /\ after[a].trackedStats.currentWordCount =
                               bp[a].trackedStats.currentWordCount + Len(seg.text)
                        /\ after[a].trackedStats.eventsTriggered =
                               bp[a].trackedStats.eventsTriggered +
                               (IF seg.triggeredEventId # 0 THEN 1 ELSE 0)
                        /\ after[a].trackedStats.interactionsCount =
                               bp[a].trackedStats.interactionsCount +
                               (IF named THEN 1 ELSE 0)]_vars

(***************************************************************************)
(* Records of the list that share a pair or an identifier                  *)
(***************************************************************************)
\* C33: after any sequence of turns, manual saves, deletes and undos the
\* list of saved games never holds two records with the same sessionId and
\* the same storyId, where the storyId is present.
C33_OneRecordPerPair ==
    \A j, k \in 1..Len(savedGames) :
        /\ j # k
        /\ savedGames[j].storyId # 0
        /\ savedGames[j].storyId = savedGames[k].storyId
        => savedGames[j].sessionId # savedGames[k].sessionId

\* the records a file of exported games can hold: those of the list and
\* those that were deleted from it
Exported ==
    Range(savedGames) \cup
    UNION {Range(deletedSavesStack[k]) : k \in 1..Len(deletedSavesStack)}

\* a game is played, its records are deleted, imported from a file of
\* exported games and the deletes undone
ImportsNext ==
    \/ gameState = LANDING /\ HandleStartNewGameSetup
    \/ SetupCharacter("hero", "brave")
    \/ RoomForSave /\ gameState = SETUP /\ HandleStartGame
    \/ \E i \in 1..MaxPending, r \in OpeningAnswers : StartGameOpeningReturns(i, {}, r)
    \/ \E i \in 1..MaxPending : StartGameImagesReturn(i, TRUE, TRUE, {})
    \/ \E i \in 1..MaxPending : StartGameCommit(i, TRUE)
    \/ RoomForSave /\ gameState = PLAYING /\ HandleChoice("go", -1)
    \/ \E i \in 1..MaxPending : ChoiceReturns(i, {}, QuietAnswer, TRUE)
    \/ \E k \in 1..Len(savedGames) : Idle /\ DeleteSaveGame(savedGames[k].id, TRUE)
    \/ \E s \in Exported : Idle /\ ImportSaveGame(<<s>>, TRUE)
    \/ Idle /\ HandleUndoDelete(TRUE)

SpecImports == Init /\ [][ImportsNext]_vars

\* C34: after any sequence of saves, deletes, imports and undos the list of
\* saved games never holds two records with the same identifier.
C34_OneRecordPerId ==
    \A j, k \in 1..Len(savedGames) :
        j # k => savedGames[j].id # savedGames[k].id

(***************************************************************************)
(* Changes of the context made while a turn awaits the backend             *)
(***************************************************************************)
\* a game is played; while a turn awaits the backend an event is scheduled,
\* the text of a segment is edited or a saved game is loaded
OverlapNext ==
    \/ gameState = LANDING /\ HandleStartNewGameSetup
    \/ SetupCharacter("hero", "brave")
    \/ RoomForSave /\ gameState = SETUP /\ HandleStartGame
    \/ \E i \in 1..MaxPending, r \in OpeningAnswers : StartGameOpeningReturns(i, {}, r)
    \/ \E i \in 1..MaxPending : StartGameImagesReturn(i, TRUE, TRUE, {})
    \/ \E i \in 1..MaxPending : StartGameCommit(i, TRUE)
    \/ RoomForSave /\ gameState = PLAYING /\ HandleChoice("go", -1)
    \/ \E i \in 1..MaxPending : ChoiceReturns(i, {}, QuietAnswer, TRUE)
    \/ TurnsInFlight # {} /\ context.scheduledEvents = <<>> /\ HandleAddScheduledEvent("duel")
    \/ \E id \in SegmentIds : TurnsInFlight # {} /\ HandleUpdateSegmentText(id, ShortText)
    \/ \E k \in 1..Len(savedGames) : TurnsInFlight # {} /\ HandleLoadGame(savedGames[k], FALSE)

SpecOverlap == Init /\ [][OverlapNext]_vars

\* C35: no update is lost across a turn: what the context holds when the
\* turn commits, changes made while the turn awaited the backend included,
\* is in the context after the commit: the session is the same, the history
\* is the one before the commit with the new segment added, and every
\* scheduled event is still scheduled.
C35_TurnKeepsTheLiveContext ==
    [][\A i \in 1..Len(pending) :
          TurnCommits(i) =>
              /\ context'.sessionId = context.sessionId
              /\ Len(context'.history) = Len(context.history) + 1
              /\ SubSeq(context'.history, 1, Len(context.history)) = context.history
              /\ \A j \in 1..Len(context.scheduledEvents) :
                     \E k \in 1..Len(context'.scheduledEvents) :
                         context'.scheduledEvents[k].id = context.scheduledEvents[j].id]_vars

C37_RegenerationWritesItsOwnSegment ==
    [][\A i \in 1..Len(pending) :
          RegenerationCommits(i) =>
              /\ SegAt(context.history, pending[i].lastIdx).id
                     = SegAt(pending[i].ctx.history, pending[i].lastIdx).id
              /\ SegAt(context'.history, pending[i].lastIdx).id
                     = SegAt(pending[i].ctx.history, pending[i].lastIdx).id]_vars

(***************************************************************************)
(* Pending chapters and the active chapter                                 *)
(***************************************************************************)
PendingChapters(bp) == {i \in 1..Len(bp) : bp[i].status = "pending"}

\* C38: chapter progress never gets stuck while playing: in a state reached
\* by the commit of an opening, of a turn or of a blueprint plan with
\* gameState PLAYING, a blueprint that contains a pending chapter contains
\* an active chapter as well.
C38_PendingChaptersHaveAnActiveOne ==
    [][\A i \in 1..Len(pending) :
          (OpeningCommits(i) \/ TurnCommits(i) \/ PlanCommits(i)) /\ gameState' = PLAYING =>
              (PendingChapters(context'.plotBlueprint) # {}
                  => ActiveChapters(context'.plotBlueprint) # {})]_vars

(***************************************************************************)
(* Active chapters whose goals are met                                     *)
(***************************************************************************)
\* a blueprint is planned during the setup, the game is started from the
\* setup screen, turns are played one at a time, and a saved game is loaded
\* back into the setup screen
GoalsNext ==
    \/ gameState = LANDING /\ HandleStartNewGameSetup
    \/ SetupCharacter("hero", "brave")
    \/ \E config \in BOOLEAN :
           Idle /\ gameState = SETUP /\ context.plotBlueprint = <<>> /\ HandleAutoPlanBlueprint(config)
    \/ \E i \in 1..MaxPending, t \in TurnPlans :
           AutoPlanReturns(i, t, PlanRange[1], PlanRange[2], <<>>)
    \/ Idle /\ RoomForSave /\ gameState = SETUP /\ HandleStartGame
    \/ \E i \in 1..MaxPending, r \in OpeningAnswers : StartGameOpeningReturns(i, {}, r)
    \/ \E i \in 1..MaxPending : StartGameImagesReturn(i, TRUE, TRUE, {})
    \/ \E i \in 1..MaxPending : StartGameCommit(i, TRUE)
    \/ Idle /\ RoomForSave /\ gameState = PLAYING /\ HandleChoice("go", -1)
    \/ \E i \in 1..MaxPending, r \in Answers : ChoiceReturns(i, {}, r, TRUE)
    \/ \E k \in 1..Len(savedGames) :
           Idle /\ gameState = PLAYING /\ HandleLoadGame(savedGames[k], TRUE)

SpecGoals == Init /\ [][GoalsNext]_vars

\* C39: after every committed opening and every committed turn no chapter
\* with status active has tracked stats that satisfy its completion
\* predicate.
C39_NoActiveChapterHasMetItsGoals ==
    [][\A i \in 1..Len(pending) :
          OpeningCommits(i) \/ TurnCommits(i) =>
              \A a \in ActiveChapters(context'.plotBlueprint) :
                  ~IsChapterComplete(context'.plotBlueprint[a],
                                     context'.plotBlueprint[a].trackedStats)]_vars

(***************************************************************************)
(* The lineage of the checkpoints                                          *)
(***************************************************************************)
\* a game is played with turns from the last and from an earlier segment and
\* with regenerations, a turn and a regeneration may await the backend
\* together, and the player saves by hand and deletes saved games between
\* requests
LineageNext ==
    \/ gameState = LANDING /\ HandleStartNewGameSetup
    \/ SetupCharacter("hero", "brave")
    \/ RoomForSave /\ gameState = SETUP /\ HandleStartGame
    \/ \E i \in 1..MaxPending, r \in OpeningAnswers : StartGameOpeningReturns(i, {}, r)
    \/ \E i \in 1..MaxPending : StartGameImagesReturn(i, TRUE, TRUE, {})
    \/ \E i \in 1..MaxPending : StartGameCommit(i, TRUE)
    \/ \E fromIndex \in {-1, 0} :
           /\ SavesHeld + WritersInFlight < MaxSaves
           /\ gameState = PLAYING
           /\ HandleChoice("go", fromIndex)
    \/ \E i \in 1..MaxPending : ChoiceReturns(i, {}, QuietAnswer, TRUE)
    \/ RoomForRegeneration /\ gameState = PLAYING /\ HandleRegenerate("full")
    \/ \E i \in 1..MaxPending : RegenerateReturns(i, {}, KeyAnswer)
    \/ RoomForSave /\ HandleManualSave(TRUE)
    \/ \E k \in 1..Len(savedGames) : Idle /\ DeleteSaveGame(savedGames[k].id, TRUE)

SpecLineage == Init /\ [][LineageNext]_vars

\* C40: checkpoint lineage is consistent: for every saved game of type auto
\* or manual, storyId is the id of the last segment of the history of the
\* record's own context and of its current segment, and parentId is the id
\* of the segment right before the last one, absent exactly when that
\* history has one segment.
C40_CheckpointLineage ==
    \A k \in 1..Len(savedGames) :
        savedGames[k].type \in {AUTO, MANUAL} =>
            LET history == savedGames[k].context.history
                n == Len(history)
            IN /\ n > 0
               /\ savedGames[k].storyId = history[n].id
               /\ savedGames[k].storyId = savedGames[k].context.currentSegment.id
               /\ savedGames[k].parentId = IF n = 1 THEN 0 ELSE history[n - 1].id

(***************************************************************************)
(* The undo stack of the deletes                                           *)
(***************************************************************************)
\* games are started and played, and on the landing screen their records are
\* deleted, one by one or a session at once, and the deletes undone
UndoNext ==
    \/ gameState = LANDING /\ HandleStartNewGameSetup
    \/ SetupCharacter("hero", "brave")
    \/ RoomForSave /\ HandleStartGame
    \/ \E i \in 1..MaxPending, r \in OpeningAnswers : StartGameOpeningReturns(i, {}, r)
    \/ \E i \in 1..MaxPending : StartGameImagesReturn(i, TRUE, TRUE, {})
    \/ \E i \in 1..MaxPending : StartGameCommit(i, TRUE)
    \/ RoomForSave /\ HandleChoice("go", -1)
    \/ \E i \in 1..MaxPending : ChoiceReturns(i, {}, QuietAnswer, TRUE)
    \/ Idle /\ gameState = PLAYING /\ HandleBackToHome
    \/ /\ gameState = LANDING
       /\ \/ \E k \in 1..Len(savedGames) : DeleteSaveGame(savedGames[k].id, TRUE)
          \/ \E k \in 1..Len(savedGames) : DeleteSession(savedGames[k].sessionId, TRUE)
          \/ HandleUndoDelete(TRUE)
          \/ HandleUndoDeleteEmpty

SpecUndo == Init /\ [][UndoNext]_vars

\* C26: the undo stack is last-in first-out.  A step that lengthens the
\* stack adds one entry, the set of records the step took out of the list;
\* a step that shortens it removes the last entry and puts exactly its
\* records back into the list; after k deletes in a row and k undos in a row
\* the list holds the records it held before the first delete; and an undo
\* on an empty stack changes neither the list, the stack nor the store.
C26_UndoStackIsLastInFirstOut ==
    [][/\ Len(deletedSavesStack') > Len(deletedSavesStack) =>
              /\ SubSeq(deletedSavesStack', 1, Len(deletedSavesStack)) = deletedSavesStack
              /\ Len(deletedSavesStack') = Len(deletedSavesStack) + 1
              /\ Range(deletedSavesStack'[Len(deletedSavesStack')]) # {}
              /\ Range(deletedSavesStack'[Len(deletedSavesStack')]) =
                     Range(savedGames) \ Range(savedGames')
              /\ Range(savedGames') \subseteq Range(savedGames)
       /\ Len(deletedSavesStack') < Len(deletedSavesStack) =>
              /\ deletedSavesStack' =
                     SubSeq(deletedSavesStack, 1, Len(deletedSavesStack) - 1)
              /\ Range(savedGames') =
                     Range(savedGames) \cup
                     Range(deletedSavesStack[Len(deletedSavesStack)])
              /\ Len(savedGames') =
                     Len(savedGames) + Len(deletedSavesStack[Len(deletedSavesStack)])
       /\ probe'.kind \in {"undone", "restored", "unwound"} =>
              (probe'.tracked /\ probe'.depth = 0 =>
                  /\ Range(savedGames') = probe'.origin
                  /\ Len(savedGames') = Cardinality(probe'.origin))
       /\ probe'.kind = "undoEmpty" =>
              /\ deletedSavesStack = <<>>
              /\ savedGames' = savedGames
              /\ deletedSavesStack' = deletedSavesStack
              /\ storage' = storage]_vars

\* two deletes in a row were undone by two undos in a row
C26_Witness ==
    /\ probe.kind = "unwound"
    /\ probe.depth = 0
    /\ deletedSavesStack = <<>>

====
